---- MODULE Spec2Model ----
(***************************************************************************)
(* The workflow orchestrator of the credentialing passport backend         *)
(* (backend/app/orchestrator.py), its persistence calls                    *)
(* (backend/app/db_service.py), the endpoints that store passports, create *)
(* workflows and trigger runs (backend/app/main.py), and the checklist and *)
(* quality-report functions of backend/app/agents.py.                      *)
(*                                                                         *)
(* One run of run_workflow is a process: the calling thread walks through  *)
(* the function body, the five task functions execute on the worker pool   *)
(* and hand their result back through a future.  Persistence calls commit  *)
(* before they return (db_service.py), so each is one atomic write; they   *)
(* are taken to return normally.                                           *)
(***************************************************************************)
EXTENDS Naturals, Sequences, FiniteSets, TLC

(***************************************************************************)
(* Bounds of the model.                                                    *)
(***************************************************************************)
\* number of runs requested on the workflow in the re-run specification
MaxRuns == 2

\* number of workflows the workflows table can hold
MaxWorkflows == 2

\* lengths of the lists of the passports given to the agent functions
MaxLocations == 2
MaxLicenses == 2
MaxReferences == 3

\* a run is overtaken by another run after every SwitchEvery-th step
SwitchEvery == 3

(***************************************************************************)
(* Python values.                                                          *)
(***************************************************************************)
None == "None"

\* dict.get(key, default)
Get(d, k, dflt) == IF k \in DOMAIN d THEN d[k] ELSE dflt

\* the empty dict {}
EmptyDict == [k \in {} |-> None]

\* an Optional column or attribute: unset, or holding one value
Nothing == << >>
Some(v) == << v >>

\* truthiness of an Optional[str]: None and "" are falsy
Truthy(s) == s # None /\ s # ""

(***************************************************************************)
(* Fixed data of the program.                                              *)
(***************************************************************************)
QUALITY == "Data Quality & Consistency Agent"
VERIFICATION == "Primary Source Verification Agent"
DOCUMENTS == "Document Ingestion & Data Extraction Agent"
PAYER == "Payer Enrollment Submission Agent"
GUARDRAILS == "Billing & Scheduling Guardrail Agent"

\* agent_jobs of run_workflow: (agent name, task function)
agent_jobs ==
  << [name |-> QUALITY,      fn |-> "run_quality"],
     [name |-> VERIFICATION, fn |-> "run_verification"],
     [name |-> DOCUMENTS,    fn |-> "run_documents_stub"],
     [name |-> PAYER,        fn |-> "run_payer_submission"],
     [name |-> GUARDRAILS,   fn |-> "run_guardrails"] >>

AgentNames == { agent_jobs[i].name : i \in DOMAIN agent_jobs }

JobOf(a) == CHOOSE i \in DOMAIN agent_jobs : agent_jobs[i].name = a

\* WorkflowStatus
WorkflowStatus ==
  { "draft", "in_progress", "pending_review", "approved", "rejected", "completed" }

\* models.LicenseStatus
LicenseStatus == { "active", "inactive", "expired", "suspended", "revoked" }

\* RequirementsChecklist.destination_type
DestinationTypes == { "hospital", "group", "staffing_firm", "telehealth" }

\* TaskRunDB.status
TaskRunStatus == { "pending", "running", "completed", "failed", "exception" }
TerminalStatus == { "completed", "failed", "exception" }

CITATION_URL == "https://npiregistry.cms.hhs.gov/api-page"
NO_NPI_REASON == "No NPI present on passport enrollment.practice_locations"

WORKFLOW_ID == "wf-1"
CLINICIAN_ID == "clinician-001"

(***************************************************************************)
(* Inputs explored.                                                        *)
(***************************************************************************)
RunIds == 1 .. MaxRuns

\* the passports explored: the list of the npi fields of the practice locations,
\* for the sample passport (data.py, one location with an NPI) and for the same
\* passport with the NPI of the location left out
Passports ==
  { [ practice_locations |-> << "1234567890" >> ],
    [ practice_locations |-> << None >> ] }

\* payer_name : str | None
PayerNames == { None, "", "Aetna" }

\* all sequences over S of length at most n
RECURSIVE SeqsUpTo(_, _)
SeqsUpTo(S, n) ==
  IF n = 0 THEN { << >> }
  ELSE LET shorter == SeqsUpTo(S, n - 1)
       IN shorter \cup { Append(q, x) : q \in { t \in shorter : Len(t) = n - 1 }, x \in S }

\* the dates explored, for the expiration dates and for the current date
Days == 1 .. 3

\* the passport of data.py, its dates after the last of Days
SamplePassport ==
  [ clinician_id |-> CLINICIAN_ID,
    legal_name |-> "Dr. Sarah Johnson",
    address_history |-> << [ start_date |-> 1, end_date |-> Some(1) ],
                           [ start_date |-> 1, end_date |-> Nothing ] >>,
    education |-> << [ degree |-> "MD" ] >>,
    training |-> << [ program_type |-> "residency" ], [ program_type |-> "fellowship" ] >>,
    work_history |-> << [ start_date |-> 2, end_date |-> Nothing ],
                        [ start_date |-> 1, end_date |-> Some(2) ] >>,
    state_licenses |-> << [ state |-> "MA", expiration_date |-> 4, status |-> "active" ],
                          [ state |-> "NY", expiration_date |-> 4, status |-> "active" ] >>,
    dea_number |-> "BJ1234567",
    dea_expiration |-> Some(4),
    board_certifications |->
      << [ board_name |-> "American Board of Internal Medicine",
           expiration_date |-> Some(4) ] >>,
    malpractice |-> Some([ expiration_date |-> 4 ]),
    disclosures |-> << >>,
    references |-> << [ name |-> "Dr. Michael Chen" ], [ name |-> "Dr. Emily Rodriguez" ] >>,
    practice_locations |-> << "1234567890" >>,
    w9_on_file |-> TRUE ]

\* passports that differ from the sample in the npi fields of the locations
LocationPassports ==
  { [ SamplePassport EXCEPT !.practice_locations = locs ] :
      locs \in SeqsUpTo({ None, "", "1234567890", "1987654321" }, MaxLocations) }

\* passports that differ from the sample in the state licenses: in their status,
\* and in their state and expiration date
LicensePassports ==
  { [ SamplePassport EXCEPT !.state_licenses = ls ] :
      ls \in SeqsUpTo({ [ state |-> "MA", expiration_date |-> 4, status |-> st ] :
                          st \in LicenseStatus }, MaxLicenses)
         \cup SeqsUpTo({ [ state |-> st, expiration_date |-> d, status |-> "active" ] :
                           st \in { "MA", "NY" }, d \in Days }, MaxLicenses) }

\* passports that differ from the sample in the number of references
ReferencePassports ==
  { [ SamplePassport EXCEPT !.references = refs ] :
      refs \in { [ i \in 1 .. n |-> [ name |-> "Dr. Michael Chen" ] ] : n \in 0 .. MaxReferences } }

\* passports in which each of the ten sections of the completeness score is
\* empty or not
SectionPassports ==
  { [ SamplePassport EXCEPT
        !.legal_name = IF "legal_name" \in full THEN @ ELSE "",
        !.education = IF "education" \in full THEN @ ELSE << >>,
        !.training = IF "training" \in full THEN @ ELSE << >>,
        !.work_history = IF "work_history" \in full THEN @ ELSE << >>,
        !.state_licenses = IF "state_licenses" \in full THEN @ ELSE << >>,
        !.board_certifications = IF "board_certifications" \in full THEN @ ELSE << >>,
        !.malpractice = IF "malpractice" \in full THEN @ ELSE Nothing,
        !.references = IF "references" \in full THEN @ ELSE << >>,
        !.practice_locations = IF "practice_locations" \in full THEN @ ELSE << >>,
        !.disclosures = IF "disclosures" \in full
                          THEN << [ type |-> "sanction", resolved |-> TRUE ] >> ELSE << >> ] :
      full \in SUBSET { "legal_name", "education", "training", "work_history",
                        "state_licenses", "board_certifications", "malpractice",
                        "references", "practice_locations", "disclosures" } }

\* passports that differ from the sample in the DEA number and registration, the
\* W9, the residency, and the dates of the other sections the report looks at
OtherPassports ==
  { [ SamplePassport EXCEPT !.dea_number = dea, !.w9_on_file = w9 ] :
      dea \in { None, "", "BJ1234567" }, w9 \in BOOLEAN }
  \cup { [ SamplePassport EXCEPT !.training = << [ program_type |-> "fellowship" ] >> ],
         [ SamplePassport EXCEPT !.dea_expiration = Nothing ],
         [ SamplePassport EXCEPT !.dea_expiration = Some(1),
                                 !.malpractice = Some([ expiration_date |-> 1 ]) ],
         [ SamplePassport EXCEPT !.board_certifications =
             << [ board_name |-> "American Board of Internal Medicine",
                  expiration_date |-> Some(1) ],
                [ board_name |-> "American Board of Surgery",
                  expiration_date |-> Nothing ] >> ],
         [ SamplePassport EXCEPT !.work_history =
             << [ start_date |-> 2, end_date |-> Some(1) ] >> ],
         [ SamplePassport EXCEPT !.address_history =
             << [ start_date |-> 1, end_date |-> Some(3) ],
                [ start_date |-> 2, end_date |-> Nothing ] >> ] }

AgentPassports ==
  LocationPassports \cup LicensePassports \cup ReferencePassports
    \cup SectionPassports \cup OtherPassports

\* str(e) of an error raised by a task function, and by the registry lookup
TaskErrors == { "task crashed" }
LookupErrors == { "503 Server Error" }

VARIABLES
  passport,       \* the Passport object the runs work on
  passport_rows,  \* PassportDB: clinician_id -> stored passport
  workflows,      \* WorkflowDB: workflow_id -> stored workflow row
  task_runs,      \* TaskRunDB: task_run_id -> row
  audit_events,   \* AuditEventDB: the rows in insertion order
  pc,             \* per run: where the calling thread is
  requested_id,   \* per run: the workflow_id argument of the request
  payer_name,     \* per run: the payer_name argument
  workflow,       \* per run: the in-memory Workflow object
  task_run_ids,   \* per run: agent name -> task run id
  futures,        \* per run: agent name -> state of its future
  results,        \* per run: agent name -> task output
  exceptions,     \* per run: the local exception list
  status_writes,  \* per run: number of assignments to workflow.status
  call            \* the last direct call of an agent function and what it gave

vars == << passport, passport_rows, workflows, task_runs, audit_events, pc, payer_name,
           workflow, task_run_ids, futures, results, exceptions, status_writes, call,
           requested_id >>

db_vars == << workflows, task_runs, audit_events >>

(***************************************************************************)
(* db_service.py                                                           *)
(***************************************************************************)
\* add_audit_event as it would be if an event without a source were not stored
add_audit_event_sourced(log, workflow_id, clinician_id, actor, action, source, details) ==
  IF source = None
    THEN log
    ELSE Append(log, [ workflow_id |-> workflow_id,
                       clinician_id |-> clinician_id,
                       actor |-> actor,
                       action |-> action,
                       source |-> source,
                       details |-> details ])

\* add_audit_event as it would be if the log kept one event per actor and
\* action of a workflow, the latest
add_audit_event_upsert(log, workflow_id, clinician_id, actor, action, source, details) ==
  LET event == [ workflow_id |-> workflow_id,
                 clinician_id |-> clinician_id,
                 actor |-> actor,
                 action |-> action,
                 source |-> source,
                 details |-> details ]
      same == { i \in DOMAIN log : /\ log[i].workflow_id = workflow_id
                                   /\ log[i].actor = actor
                                   /\ log[i].action = action }
  IN IF same = {}
       THEN Append(log, event)
       ELSE [ i \in DOMAIN log |-> IF i \in same THEN event ELSE log[i] ]

\* add_audit_event: insert one row, commit
add_audit_event(log, workflow_id, clinician_id, actor, action, source, details) ==
  Append(log, [ workflow_id |-> workflow_id,
                clinician_id |-> clinician_id,
                actor |-> actor,
                action |-> action,
                source |-> source,
                details |-> details ])

\* create_task_run as it would be if the row were inserted as running
create_task_run_running(rows, task_run_id, workflow_id, clinician_id, agent_name, status) ==
  (task_run_id :> [ task_run_id |-> task_run_id,
                    workflow_id |-> workflow_id,
                    clinician_id |-> clinician_id,
                    agent_name |-> agent_name,
                    status |-> "running",
                    started_at |-> None,
                    completed_at |-> None,
                    output |-> Nothing,
                    exceptions |-> Nothing,
                    updates |-> 0 ]) @@ rows

\* create_task_run: insert one row, commit
create_task_run(rows, task_run_id, workflow_id, clinician_id, agent_name, status) ==
  (task_run_id :> [ task_run_id |-> task_run_id,
                    workflow_id |-> workflow_id,
                    clinician_id |-> clinician_id,
                    agent_name |-> agent_name,
                    status |-> status,
                    started_at |-> None,
                    completed_at |-> None,
                    output |-> Nothing,
                    exceptions |-> Nothing,
                    updates |-> 0 ]) @@ rows

\* update_task_run: setattr for each given field on the row with that id, commit;
\* nothing happens when no row has the id.  updates counts the calls that hit the row.
update_task_run(rows, task_run_id, fields) ==
  IF task_run_id \notin DOMAIN rows
    THEN rows
    ELSE [ rows EXCEPT ![task_run_id] =
             [ k \in DOMAIN @ |->
                 IF k \in DOMAIN fields THEN fields[k]
                 ELSE IF k = "updates" THEN @[k] + 1
                 ELSE @[k] ] ]

\* create_passport: insert the row of the clinician, commit
create_passport(tbl, clinician_id, p) ==
  (clinician_id :> p) @@ tbl

\* update_passport: passport_data replaced on the row of the clinician, commit;
\* nothing happens when the clinician has no row
update_passport(tbl, clinician_id, p) ==
  IF clinician_id \notin DOMAIN tbl
    THEN tbl
    ELSE [ tbl EXCEPT ![clinician_id] = p ]

\* create_workflow: insert one row, commit
create_workflow(tbl, w) ==
  (w.workflow_id :> [ status |-> w.status, workflow_data |-> w ]) @@ tbl

\* list_task_runs: the rows of one workflow
list_task_runs(rows, workflow_id) ==
  { t \in DOMAIN rows : rows[t].workflow_id = workflow_id }

\* list_audit_events: the positions of the events of one workflow
list_audit_events(log, workflow_id) ==
  { i \in DOMAIN log : log[i].workflow_id = workflow_id }

(***************************************************************************)
(* orchestrator.py                                                         *)
(***************************************************************************)
\* _task_id as it would be if the id were derived from the agent name alone
_task_id_stable(rows, agent_name) ==
  [ agent |-> agent_name, uuid |-> 1 ]

\* _task_id: "task-<agent>-<uuid4>"; the uuid part is fresh on every call
_task_id(rows, agent_name) ==
  [ agent |-> agent_name, uuid |-> Cardinality(DOMAIN rows) + 1 ]

\* what a call of a task function ends with: a returned dict or a raised error
Returned(out) == [ raised |-> FALSE, out |-> out ]
Raised(err) == [ raised |-> TRUE, error |-> err ]

\* run_quality: the dumped quality report; it has no "status" key
run_quality(p) ==
  { Returned([ clinician_id |-> CLINICIAN_ID,
               issues |-> "issues",
               completeness_score |-> "score",
               generated_at |-> "utcnow" ]) }

\* FirstNpi as it would be if the last location with an npi were taken
FirstNpi_last(locs) ==
  IF \E i \in DOMAIN locs : Truthy(locs[i])
    THEN locs[CHOOSE i \in DOMAIN locs :
                /\ Truthy(locs[i])
                /\ \A j \in (i + 1) .. Len(locs) : ~Truthy(locs[j])]
    ELSE None

\* the npi run_verification looks up: the first truthy one in list order
FirstNpi(locs) ==
  IF \E i \in DOMAIN locs : Truthy(locs[i])
    THEN locs[CHOOSE i \in DOMAIN locs :
                /\ Truthy(locs[i])
                /\ \A j \in 1 .. (i - 1) : ~Truthy(locs[j])]
    ELSE None

\* agents.primary_source_verify_nppes: the registry answers, or the call raises
primary_source_verify_nppes(npi) ==
  { Returned([ source |-> "NPPES NPI Registry API",
               query |-> [ npi |-> npi ],
               result |-> "registry payload",
               citation_url |-> CITATION_URL ]) }
  \cup { Raised(e) : e \in LookupErrors }

\* run_verification_calls as it would be if a passport without an NPI made the
\* verification report skipped
run_verification_calls_skip(p) ==
  LET npi == FirstNpi(p.practice_locations) IN
  IF ~Truthy(npi)
    THEN { [ lookups |-> << >>,
             outcome |-> Returned([ status |-> "skipped" ]) ] }
    ELSE { [ lookups |-> << npi >>,
             outcome |-> IF look.raised
                           THEN Returned([ status |-> "failed",
                                           error |-> look.error,
                                           citation_url |-> CITATION_URL ])
                           ELSE Returned([ status |-> "ok", nppes |-> look.out ]) ]
           : look \in primary_source_verify_nppes(npi) }

\* run_verification, with the registry lookups the call makes
run_verification_calls(p) ==
  LET npi == FirstNpi(p.practice_locations) IN
  IF ~Truthy(npi)
    THEN { [ lookups |-> << >>,
             outcome |-> Returned([ status |-> "exception",
                                    reason |-> NO_NPI_REASON,
                                    citation_url |-> CITATION_URL ]) ] }
    ELSE { [ lookups |-> << npi >>,
             outcome |-> IF look.raised
                           THEN Returned([ status |-> "failed",
                                           error |-> look.error,
                                           citation_url |-> CITATION_URL ])
                           ELSE Returned([ status |-> "ok", nppes |-> look.out ]) ]
           : look \in primary_source_verify_nppes(npi) }

\* run_verification: the ways the call can end
run_verification(p) ==
  { c.outcome : c \in run_verification_calls(p) }

\* run_documents_stub: one extraction envelope per passport document
run_documents_stub(p) ==
  { Returned([ status |-> "ok", extractions |-> << >> ]) }

\* run_payer_submission as it would be if only None counted as no payer name
run_payer_submission_blank(payer) ==
  IF payer = None
    THEN { Returned([ status |-> "skipped" ]) }
    ELSE { Returned([ status |-> "ok",
                      submission |-> [ payer_name |-> payer,
                                       status |-> "submitted",
                                       receipt |-> "receipt" ] ]) }

\* run_payer_submission
run_payer_submission(payer) ==
  IF ~Truthy(payer)
    THEN { Returned([ status |-> "skipped" ]) }
    ELSE { Returned([ status |-> "ok",
                      submission |-> [ payer_name |-> payer,
                                       status |-> "submitted",
                                       receipt |-> "receipt" ] ]) }

\* run_guardrails
run_guardrails ==
  { Returned([ status |-> "ok", guardrails |-> "guardrails" ]) }

\* CallTask as it would be if the call of run_verification never ended
CallTask_hang(fn, p, payer, raisers) ==
  IF fn = "run_verification"
    THEN {}
    ELSE ( CASE fn = "run_quality" -> run_quality(p)
             [] fn = "run_documents_stub" -> run_documents_stub(p)
             [] fn = "run_payer_submission" -> run_payer_submission(payer)
             [] fn = "run_guardrails" -> run_guardrails )
         \cup ( IF fn \in raisers THEN { Raised(e) : e \in TaskErrors } ELSE {} )

\* the ways a call of the task function fn can end; a task function in raisers
\* may also end by raising
CallTask(fn, p, payer, raisers) ==
  ( CASE fn = "run_quality" -> run_quality(p)
      [] fn = "run_verification" -> run_verification(p)
      [] fn = "run_documents_stub" -> run_documents_stub(p)
      [] fn = "run_payer_submission" -> run_payer_submission(payer)
      [] fn = "run_guardrails" -> run_guardrails )
  \cup ( IF fn \in raisers THEN { Raised(e) : e \in TaskErrors } ELSE {} )

AllTaskFns == { agent_jobs[i].fn : i \in DOMAIN agent_jobs }

\* future_result as it would be if a raised error were swallowed
future_result_swallow(outcome) ==
  IF outcome.raised
    THEN EmptyDict
    ELSE outcome.out

\* lines 136-139: the result of the future, a raised error turned into a failed output
future_result(outcome) ==
  IF outcome.raised
    THEN [ status |-> "failed", error |-> outcome.error ]
    ELSE outcome.out

\* mapped_status as it would be if a skipped task kept its own tag
mapped_status_skipped(status) ==
  IF status = "failed" THEN "failed"
  ELSE IF status = "exception" THEN "exception"
  ELSE IF status = "skipped" THEN "skipped"
  ELSE "completed"

\* mapped_status as it would be if only the tags ok and skipped gave completed
mapped_status_strict(status) ==
  IF status = "failed" THEN "failed"
  ELSE IF status \in { "ok", "skipped" } THEN "completed"
  ELSE "exception"

\* lines 142-151: the task-run status for a task-reported status tag
mapped_status(status) ==
  IF status = "failed" THEN "failed"
  ELSE IF status = "exception" THEN "exception"
  ELSE IF status = "skipped" THEN "completed"
  ELSE "completed"

\* exception_strings as it would be if the string of an exception outcome were
\* built from the error field
exception_strings_error(agent_name, out) ==
  LET status == Get(out, "status", "ok") IN
  IF status = "failed"
    THEN << agent_name \o ": " \o Get(out, "error", "failed") >>
  ELSE IF status = "exception"
    THEN << agent_name \o ": " \o Get(out, "error", "exception") >>
  ELSE << >>

\* exception_strings as it would be if a failed task were reported under both
\* its error and its reason
exception_strings_twice(agent_name, out) ==
  LET status == Get(out, "status", "ok") IN
  IF status = "failed"
    THEN << agent_name \o ": " \o Get(out, "error", "failed"),
            agent_name \o ": " \o Get(out, "reason", "exception") >>
  ELSE IF status = "exception"
    THEN << agent_name \o ": " \o Get(out, "reason", "exception") >>
  ELSE << >>

\* lines 144-149: the strings the task adds to the exception list
exception_strings(agent_name, out) ==
  LET status == Get(out, "status", "ok") IN
  IF status = "failed"
    THEN << agent_name \o ": " \o Get(out, "error", "failed") >>
  ELSE IF status = "exception"
    THEN << agent_name \o ": " \o Get(out, "reason", "exception") >>
  ELSE << >>

\* final_status as it would be if a single exception were tolerated
final_status_lenient(excs) ==
  IF Len(excs) <= 1 THEN "completed" ELSE "pending_review"

\* line 190: the workflow status for an exception list
final_status(excs) ==
  IF excs = << >> THEN "completed" ELSE "pending_review"

\* build_evidence_bundle as it would be if the verification result were looked up
\* under a key that results never has
build_evidence_bundle_unverified(p, res) ==
  [ passport_snapshot |-> p,
    requirements |-> "requirements",
    quality_report |-> "quality_report",
    verifications |-> << EmptyDict >>,
    submissions |->
      IF "submission" \in DOMAIN Get(res, PAYER, EmptyDict)
        THEN << res[PAYER].submission >>
        ELSE << >>,
    citations |-> "citations" ]

\* agents.build_evidence_bundle with the arguments of lines 174-187
build_evidence_bundle(p, res) ==
  [ passport_snapshot |-> p,
    requirements |-> "requirements",
    quality_report |-> "quality_report",
    verifications |-> << Get(res, VERIFICATION, EmptyDict) >>,
    submissions |->
      IF "submission" \in DOMAIN Get(res, PAYER, EmptyDict)
        THEN << res[PAYER].submission >>
        ELSE << >>,
    citations |-> "citations" ]

\* Workflow.model_dump(): the declared fields, without private attributes
model_dump(w) ==
  [ k \in DOMAIN w \ { "_evidence_bundle" } |-> w[k] ]

\* WorkflowStep(step_id=..., agent_name=..., status=..., started_at=..., completed_at=...)
WorkflowStep(step_id, agent_name, status, started_at, completed_at) ==
  [ step_id |-> step_id,
    agent_name |-> agent_name,
    status |-> status,
    started_at |-> started_at,
    completed_at |-> completed_at,
    exception_reason |-> None ]

\* agents.generate_workflow_steps: the steps of a new workflow; the requirements
\* argument is not read.  The payer-enrollment step is there for telehealth and
\* group destinations only.
generate_workflow_steps(destination_type) ==
  << WorkflowStep("req-generation", "Requirements & Checklist Agent", "completed",
                  "utcnow-5min", "utcnow-4min"),
     WorkflowStep("quality-check", QUALITY, "in_progress", "utcnow-3min", None),
     WorkflowStep("verification", VERIFICATION, "pending_review", "utcnow-2min", None),
     WorkflowStep("document-prep", DOCUMENTS, "pending_review", None, None) >>
  \o ( IF destination_type \in { "telehealth", "group" }
         THEN << WorkflowStep("payer-enrollment", PAYER, "pending_review", None, None) >>
         ELSE << >> )
  \o << WorkflowStep("guardrails", GUARDRAILS, "pending_review", None, None),
        WorkflowStep("audit-trail", "Audit Trail Agent", "pending_review", None, None) >>

\* main.py get_workflow_status, line 295: the number of completed steps
completed_steps(w) ==
  Cardinality({ i \in DOMAIN w.steps : w.steps[i].status = "completed" })

\* main.py get_workflow_status, lines 296-297: the progress as completed steps
\* over all steps, 0 for a workflow without steps
progress(w) ==
  IF Len(w.steps) > 0
    THEN [ num |-> completed_steps(w), den |-> Len(w.steps) ]
    ELSE [ num |-> 0, den |-> 1 ]

\* the workflow authorize_access stores (main.py): in progress, nothing attached
NewWorkflow ==
  [ workflow_id |-> WORKFLOW_ID,
    clinician_id |-> CLINICIAN_ID,
    destination_id |-> "demo-hospital",
    destination_type |-> "hospital",
    status |-> "in_progress",
    steps |-> generate_workflow_steps("hospital"),
    exceptions |-> << >>,
    created_at |-> "utcnow at authorize",
    updated_at |-> "utcnow at authorize",
    evidence_bundle |-> Nothing ]

\* Workflow(**row.workflow_data): the stored fields, no private attribute yet
LoadWorkflow(row) ==
  [ k \in DOMAIN row.workflow_data \cup { "_evidence_bundle" } |->
      IF k = "_evidence_bundle" THEN Nothing ELSE row.workflow_data[k] ]

\* db_service.update_workflow: status column and workflow_data replaced
update_workflow(tbl, workflow_id, w) ==
  IF workflow_id \notin DOMAIN tbl
    THEN tbl
    ELSE [ tbl EXCEPT ![workflow_id] =
             [ status |-> w.status, workflow_data |-> w ] ]

\* the id authorize_access gives the n-th workflow it stores: "wf-<uuid4>"
WorkflowIdOf(n) == "wf-" \o ToString(n)

\* NextAgent as it would be if the loops went through agent_jobs backwards
NextAgent_reversed(d) ==
  agent_jobs[CHOOSE i \in DOMAIN agent_jobs :
               /\ agent_jobs[i].name \notin DOMAIN d
               /\ \A j \in (i + 1) .. Len(agent_jobs) : agent_jobs[j].name \in DOMAIN d]

\* the agents in agent_jobs order that d has no entry for yet
NextAgent(d) ==
  agent_jobs[CHOOSE i \in DOMAIN agent_jobs :
               /\ agent_jobs[i].name \notin DOMAIN d
               /\ \A j \in 1 .. (i - 1) : agent_jobs[j].name \in DOMAIN d]

(***************************************************************************)
(* agents.py: the requirements checklist and the quality report.  A date   *)
(* is a day number; an Optional date is Nothing or Some(day).              *)
(***************************************************************************)
\* the sequences of ss, one after the other
RECURSIVE ConcatAll(_)
ConcatAll(ss) ==
  IF Len(ss) = 0 THEN << >> ELSE Head(ss) \o ConcatAll(Tail(ss))

\* Requirement(requirement_id=..., required=True, status=...)
Requirement(requirement_id, complete) ==
  [ requirement_id |-> requirement_id,
    required |-> TRUE,
    status |-> IF complete THEN "complete" ELSE "pending" ]

\* lines 48, 79, 91: destination_type in ["hospital", "group"]
hospital_or_group(destination_type) ==
  destination_type \in { "hospital", "group" }

\* telehealth_or_group as it would be if groups were left out
telehealth_or_group_only(destination_type) ==
  destination_type \in { "telehealth" }

\* line 147: destination_type in ["telehealth", "group"]
telehealth_or_group(destination_type) ==
  destination_type \in { "telehealth", "group" }

\* generate_requirements_checklist: the requirements list of the checklist
generate_requirements_checklist(destination_type, p) ==
  LET hospital_group == hospital_or_group(destination_type)
      telehealth_group == telehealth_or_group(destination_type)
  IN << Requirement("identity-legal-name", p.legal_name # "") >>
     \o ( IF hospital_group
            THEN << Requirement("education-medical-school", Len(p.education) > 0),
                    Requirement("training-residency",
                                \E i \in DOMAIN p.training :
                                  p.training[i].program_type = "residency") >>
            ELSE << >> )
     \o << Requirement("license-state-active", Len(p.state_licenses) > 0) >>
     \o ( IF hospital_group
            THEN << Requirement("license-dea", Truthy(p.dea_number)) >>
            ELSE << >> )
     \o ( IF hospital_group
            THEN << Requirement("board-certification", Len(p.board_certifications) > 0) >>
            ELSE << >> )
     \o << Requirement("malpractice-coverage", p.malpractice # Nothing),
           Requirement("references-peer", Len(p.references) >= 2),
           Requirement("work-history-5-years", Len(p.work_history) > 0),
           Requirement("disclosures-complete", Len(p.disclosures) > 0) >>
     \o ( IF telehealth_group
            THEN << Requirement("enrollment-npi",
                                \E i \in DOMAIN p.practice_locations :
                                  Truthy(p.practice_locations[i])),
                    Requirement("enrollment-w9", p.w9_on_file) >>
            ELSE << >> )

\* QualityIssue(field_name=..., issue_type=..., severity=...)
QualityIssue(field_name, issue_type, severity) ==
  [ field_name |-> field_name, issue_type |-> issue_type, severity |-> severity ]

\* license_issues as it would be if a license expiring today counted as expired
license_issues_today(p, today) ==
  ConcatAll([ i \in 1 .. Len(p.state_licenses) |->
                IF p.state_licenses[i].expiration_date <= today
                  THEN << QualityIssue("licenses.state_licenses." \o p.state_licenses[i].state,
                                       "expired", "critical") >>
                  ELSE << >> ])

\* generate_quality_report, lines 195-206: the issues of the state licenses
license_issues(p, today) ==
  ConcatAll([ i \in 1 .. Len(p.state_licenses) |->
                IF p.state_licenses[i].expiration_date < today
                  THEN << QualityIssue("licenses.state_licenses." \o p.state_licenses[i].state,
                                       "expired", "critical") >>
                  ELSE << >> ])

\* reference_issues as it would be if one reference were enough
reference_issues_one(p) ==
  IF Len(p.references) < 1
    THEN << QualityIssue("references", "missing", "high") >>
    ELSE << >>

\* generate_quality_report, lines 275-285: the issue of the references
reference_issues(p) ==
  IF Len(p.references) < 2
    THEN << QualityIssue("references", "missing", "high") >>
    ELSE << >>

\* total_fields of generate_quality_report
total_fields == 10

\* generate_quality_report, lines 289-300: completed_fields
completed_fields(p) ==
    (IF p.legal_name # "" THEN 1 ELSE 0)
  + (IF Len(p.education) > 0 THEN 1 ELSE 0)
  + (IF Len(p.training) > 0 THEN 1 ELSE 0)
  + (IF Len(p.work_history) > 0 THEN 1 ELSE 0)
  + (IF Len(p.state_licenses) > 0 THEN 1 ELSE 0)
  + (IF Len(p.board_certifications) > 0 THEN 1 ELSE 0)
  + (IF p.malpractice # Nothing THEN 1 ELSE 0)
  + (IF Len(p.references) > 0 THEN 1 ELSE 0)
  + (IF Len(p.practice_locations) > 0 THEN 1 ELSE 0)
  + 1   \* passport.disclosures is not None: the list is there, empty or not

\* generate_quality_report: the issues in the order they are appended, and the
\* completeness score completed_fields / total_fields as a fraction
generate_quality_report(p, today) ==
  [ clinician_id |-> p.clinician_id,
    issues |->
      ( IF p.legal_name = ""
          THEN << QualityIssue("identity.legal_name", "missing", "critical") >>
          ELSE << >> )
      \o license_issues(p, today)
      \o ( IF p.dea_expiration # Nothing /\ p.dea_expiration[1] < today
             THEN << QualityIssue("licenses.dea_expiration", "expired", "critical") >>
             ELSE << >> )
      \o ConcatAll([ i \in 1 .. Len(p.board_certifications) |->
                       IF /\ p.board_certifications[i].expiration_date # Nothing
                          /\ p.board_certifications[i].expiration_date[1] < today
                         THEN << QualityIssue("board_certifications."
                                                \o p.board_certifications[i].board_name,
                                              "expired", "high") >>
                         ELSE << >> ])
      \o ( IF p.malpractice # Nothing /\ p.malpractice[1].expiration_date < today
             THEN << QualityIssue("malpractice.expiration_date", "expired", "critical") >>
             ELSE << >> )
      \o ConcatAll([ i \in 1 .. Len(p.work_history) |->
                       IF /\ p.work_history[i].end_date # Nothing
                          /\ p.work_history[i].start_date > p.work_history[i].end_date[1]
                         THEN << QualityIssue("work_history[" \o ToString(i - 1) \o "]",
                                              "inconsistent", "high") >>
                         ELSE << >> ])
      \o ( IF Len(p.address_history) > 1
             THEN ConcatAll([ i \in 1 .. (Len(p.address_history) - 1) |->
                                IF /\ p.address_history[i].end_date # Nothing
                                   /\ p.address_history[i].end_date[1]
                                        > p.address_history[i + 1].start_date
                                  THEN << QualityIssue("identity.address_history["
                                                         \o ToString(i - 1) \o "]",
                                                       "inconsistent", "medium") >>
                                  ELSE << >> ])
             ELSE << >> )
      \o reference_issues(p),
    completeness_score |-> [ num |-> completed_fields(p), den |-> total_fields ] ]

\* no agent function was called directly
NoCall == [ fn |-> "none" ]

(***************************************************************************)
(* Initial state: the workflow exists (authorize_access has stored it), no *)
(* run has started.                                                        *)
(***************************************************************************)
Init ==
  /\ passport \in Passports
  /\ passport_rows = (CLINICIAN_ID :> passport)
  /\ call = NoCall
  /\ requested_id = [ r \in RunIds |-> None ]
  /\ workflows = (WORKFLOW_ID :> [ status |-> NewWorkflow.status,
                                   workflow_data |-> NewWorkflow ])
  /\ task_runs = EmptyDict
  /\ audit_events = << >>
  /\ pc = [ r \in RunIds |-> "idle" ]
  /\ payer_name = [ r \in RunIds |-> None ]
  /\ workflow = [ r \in RunIds |-> LoadWorkflow(workflows[WORKFLOW_ID]) ]
  /\ task_run_ids = [ r \in RunIds |-> EmptyDict ]
  /\ futures = [ r \in RunIds |-> EmptyDict ]
  /\ results = [ r \in RunIds |-> EmptyDict ]
  /\ exceptions = [ r \in RunIds |-> << >> ]
  /\ status_writes = [ r \in RunIds |-> 0 ]

(***************************************************************************)
(* The steps of one run r.                                                 *)
(***************************************************************************)
\* main.py run_workflow_now, lines 253-265, and run_workflow, lines 50-61:
\* the workflow and passport are loaded, run_workflow is entered and logs
\* workflow.started
StartRunOn(r, workflow_id, payers) ==
  /\ pc[r] = "idle"
  /\ workflow_id \in DOMAIN workflows
  /\ workflows[workflow_id].workflow_data.clinician_id \in DOMAIN passport_rows
  /\ requested_id' = [ requested_id EXCEPT ![r] = workflow_id ]
  /\ \E p \in payers : payer_name' = [ payer_name EXCEPT ![r] = p ]
  /\ workflow' = [ workflow EXCEPT ![r] =
                     [ LoadWorkflow(workflows[workflow_id]) EXCEPT
                         !.updated_at = "utcnow at run" ] ]
  /\ passport' = passport_rows[workflows[workflow_id].workflow_data.clinician_id]
  /\ audit_events' =
       add_audit_event(audit_events, workflow'[r].workflow_id, workflow'[r].clinician_id,
                       "agent:Workflow Orchestrator Agent", "workflow.started", "system",
                       [ destination_id |-> workflow'[r].destination_id,
                         destination_type |-> workflow'[r].destination_type ])
  /\ pc' = [ pc EXCEPT ![r] = "create" ]
  /\ UNCHANGED << passport_rows, workflows, task_runs, task_run_ids, futures, results,
                  exceptions, status_writes, call >>

\* a run of the workflow WORKFLOW_ID
StartRun(r, payers) == StartRunOn(r, WORKFLOW_ID, payers)

\* run_workflow, lines 108-112: one iteration of the loop that creates the task runs
CreateTaskRun(r) ==
  /\ pc[r] = "create"
  /\ LET job == NextAgent(task_run_ids[r])
         tid == _task_id(task_runs, job.name)
     IN /\ task_run_ids' = [ task_run_ids EXCEPT ![r] = (job.name :> tid) @@ @ ]
        /\ task_runs' = create_task_run(task_runs, tid, workflow[r].workflow_id,
                                        workflow[r].clinician_id, job.name, "pending")
        /\ pc' = [ pc EXCEPT ![r] =
                     IF DOMAIN task_run_ids'[r] = AgentNames THEN "dispatch" ELSE "create" ]
  /\ UNCHANGED << passport, workflows, audit_events, payer_name, workflow, futures,
                  results, exceptions, status_writes >>
  /\ UNCHANGED << passport_rows, call, requested_id >>

\* run_workflow, lines 119-132: one iteration of the dispatch loop: the task run
\* becomes running, agent.started is logged, the task function goes to the pool
Dispatch(r) ==
  /\ pc[r] = "dispatch"
  /\ LET job == NextAgent(futures[r])
         tid == task_run_ids[r][job.name]
     IN /\ task_runs' = update_task_run(task_runs, tid,
                                        [ status |-> "running", started_at |-> "utcnow" ])
        /\ audit_events' =
             add_audit_event(audit_events, workflow[r].workflow_id, workflow[r].clinician_id,
                             "agent:" \o job.name, "agent.started", "system",
                             [ task_run_id |-> tid ])
        /\ futures' = [ futures EXCEPT ![r] = (job.name :> [ state |-> "running" ]) @@ @ ]
        /\ pc' = [ pc EXCEPT ![r] =
                     IF DOMAIN futures'[r] = AgentNames THEN "collect" ELSE "dispatch" ]
  /\ UNCHANGED << passport, workflows, payer_name, workflow, task_run_ids, results,
                  exceptions, status_writes >>
  /\ UNCHANGED << passport_rows, call, requested_id >>

\* TaskFinish as it would be if the task function wrote its own audit event
\* from the worker thread
TaskFinish_logging(r, a, raisers) ==
  /\ a \in DOMAIN futures[r]
  /\ futures[r][a].state = "running"
  /\ \E outcome \in CallTask(agent_jobs[JobOf(a)].fn, passport, payer_name[r], raisers) :
       futures' = [ futures EXCEPT ![r][a] = [ state |-> "finished", outcome |-> outcome ] ]
  /\ audit_events' =
       add_audit_event(audit_events, workflow[r].workflow_id, workflow[r].clinician_id,
                       "agent:" \o a, "agent.finished", "system",
                       [ task_run_id |-> task_run_ids[r][a] ])
  /\ UNCHANGED << passport, workflows, task_runs, pc, payer_name, workflow, task_run_ids,
                  results, exceptions, status_writes >>
  /\ UNCHANGED << passport_rows, call, requested_id >>

\* a worker thread: the task function of agent a returns or raises, which
\* finishes its future
TaskFinish(r, a, raisers) ==
  /\ a \in DOMAIN futures[r]
  /\ futures[r][a].state = "running"
  /\ \E outcome \in CallTask(agent_jobs[JobOf(a)].fn, passport, payer_name[r], raisers) :
       futures' = [ futures EXCEPT ![r][a] = [ state |-> "finished", outcome |-> outcome ] ]
  /\ UNCHANGED << passport, db_vars, pc, payer_name, workflow, task_run_ids, results,
                  exceptions, status_writes >>
  /\ UNCHANGED << passport_rows, call, requested_id >>

\* a worker thread: the task function of agent a enters a call that never
\* returns, so its future never finishes; at most one task of a run does
TaskHang(r, a) ==
  /\ a \in DOMAIN futures[r]
  /\ futures[r][a].state = "running"
  /\ \A b \in DOMAIN futures[r] : futures[r][b].state # "blocked"
  /\ futures' = [ futures EXCEPT ![r][a] = [ state |-> "blocked" ] ]
  /\ UNCHANGED << passport, db_vars, pc, payer_name, workflow, task_run_ids, results,
                  exceptions, status_writes >>
  /\ UNCHANGED << passport_rows, call, requested_id >>

\* Collect as it would be if the strings of a task were put at the front of the
\* exception list
Collect_prepend(r, a) ==
  /\ pc[r] = "collect"
  /\ a \in DOMAIN futures[r]
  /\ futures[r][a].state = "finished"
  /\ a \notin DOMAIN results[r]
  /\ LET tid == task_run_ids[r][a]
         out == future_result(futures[r][a].outcome)
         mapped == mapped_status(Get(out, "status", "ok"))
     IN /\ results' = [ results EXCEPT ![r] = (a :> out) @@ @ ]
        /\ exceptions' = [ exceptions EXCEPT ![r] = exception_strings(a, out) \o @ ]
        /\ task_runs' =
             update_task_run(task_runs, tid,
                             [ status |-> mapped,
                               completed_at |-> "utcnow",
                               output |-> Some(out),
                               exceptions |-> IF mapped \in { "failed", "exception" }
                                                THEN Some(out) ELSE Nothing ])
        /\ audit_events' =
             add_audit_event(audit_events, workflow[r].workflow_id, workflow[r].clinician_id,
                             "agent:" \o a, "agent.completed", Get(out, "source", None),
                             [ task_run_id |-> tid, status |-> mapped ])
  /\ UNCHANGED << passport, workflows, pc, payer_name, workflow, task_run_ids, futures,
                  status_writes >>
  /\ UNCHANGED << passport_rows, call, requested_id >>

\* Collect as it would be if mapped_status were set to completed once, before
\* the loop, and not in every iteration: a task that reports ok or no tag is
\* given the status of the task handled before it
Collect_latch(r, a) ==
  /\ pc[r] = "collect"
  /\ a \in DOMAIN futures[r]
  /\ futures[r][a].state = "finished"
  /\ a \notin DOMAIN results[r]
  /\ LET tid == task_run_ids[r][a]
         out == future_result(futures[r][a].outcome)
         tag == Get(out, "status", "ok")
         before == { i \in DOMAIN audit_events :
                       /\ audit_events[i].action = "agent.completed"
                       /\ audit_events[i].details.task_run_id
                            \in { task_run_ids[r][b] : b \in DOMAIN results[r] } }
         mapped == IF tag \in { "failed", "exception", "skipped" } \/ before = {}
                     THEN mapped_status(tag)
                     ELSE audit_events[CHOOSE i \in before :
                                         \A k \in before : k <= i].details.status
     IN /\ results' = [ results EXCEPT ![r] = (a :> out) @@ @ ]
        /\ exceptions' = [ exceptions EXCEPT ![r] = @ \o exception_strings(a, out) ]
        /\ task_runs' =
             update_task_run(task_runs, tid,
                             [ status |-> mapped,
                               completed_at |-> "utcnow",
                               output |-> Some(out),
                               exceptions |-> IF mapped \in { "failed", "exception" }
                                                THEN Some(out) ELSE Nothing ])
        /\ audit_events' =
             add_audit_event(audit_events, workflow[r].workflow_id, workflow[r].clinician_id,
                             "agent:" \o a, "agent.completed", Get(out, "source", None),
                             [ task_run_id |-> tid, status |-> mapped ])
  /\ UNCHANGED << passport, workflows, pc, payer_name, workflow, task_run_ids, futures,
                  status_writes >>
  /\ UNCHANGED << passport_rows, call, requested_id >>

\* run_workflow, lines 134-171: one iteration of the as_completed loop, for a
\* finished future that was not yielded before
Collect(r, a) ==
  /\ pc[r] = "collect"
  /\ a \in DOMAIN futures[r]
  /\ futures[r][a].state = "finished"
  /\ a \notin DOMAIN results[r]
  /\ LET tid == task_run_ids[r][a]
         out == future_result(futures[r][a].outcome)
         mapped == mapped_status(Get(out, "status", "ok"))
     IN /\ results' = [ results EXCEPT ![r] = (a :> out) @@ @ ]
        /\ exceptions' = [ exceptions EXCEPT ![r] = @ \o exception_strings(a, out) ]
        /\ task_runs' =
             update_task_run(task_runs, tid,
                             [ status |-> mapped,
                               completed_at |-> "utcnow",
                               output |-> Some(out),
                               exceptions |-> IF mapped \in { "failed", "exception" }
                                                THEN Some(out) ELSE Nothing ])
        /\ audit_events' =
             add_audit_event(audit_events, workflow[r].workflow_id, workflow[r].clinician_id,
                             "agent:" \o a, "agent.completed", Get(out, "source", None),
                             [ task_run_id |-> tid, status |-> mapped ])
  /\ UNCHANGED << passport, workflows, pc, payer_name, workflow, task_run_ids, futures,
                  status_writes >>
  /\ UNCHANGED << passport_rows, call, requested_id >>

\* Finalize as it would be if the loop over the futures could be left once the
\* first future was handled
Finalize_early(r) ==
  /\ pc[r] = "collect"
  /\ DOMAIN results[r] # {}
  /\ LET evidence == build_evidence_bundle(passport, results[r])
     IN /\ workflow' = [ workflow EXCEPT ![r].exceptions = exceptions[r],
                                         ![r].status = final_status(exceptions[r]),
                                         ![r].updated_at = "utcnow at run",
                                         ![r]._evidence_bundle = Some(evidence) ]
        /\ audit_events' =
             add_audit_event(audit_events, workflow[r].workflow_id, workflow[r].clinician_id,
                             "agent:Audit Trail Agent", "evidence_bundle.created", "system",
                             [ keys |-> DOMAIN evidence ])
  /\ status_writes' = [ status_writes EXCEPT ![r] = @ + 1 ]
  /\ pc' = [ pc EXCEPT ![r] = "returned" ]
  /\ UNCHANGED << passport, workflows, task_runs, payer_name, task_run_ids, futures,
                  results, exceptions >>
  /\ UNCHANGED << passport_rows, call, requested_id >>

\* Finalize as it would be if a run that ends marked the steps of the workflow
\* completed
Finalize_steps(r) ==
  /\ pc[r] = "collect"
  /\ DOMAIN results[r] = AgentNames
  /\ LET evidence == build_evidence_bundle(passport, results[r])
     IN /\ workflow' = [ workflow EXCEPT ![r].exceptions = exceptions[r],
                                         ![r].status = final_status(exceptions[r]),
                                         ![r].updated_at = "utcnow at run",
                                         ![r].steps =
                                           [ i \in DOMAIN @ |->
                                               [ @[i] EXCEPT !.status = "completed" ] ],
                                         ![r]._evidence_bundle = Some(evidence) ]
        /\ audit_events' =
             add_audit_event(audit_events, workflow[r].workflow_id, workflow[r].clinician_id,
                             "agent:Audit Trail Agent", "evidence_bundle.created", "system",
                             [ keys |-> DOMAIN evidence ])
  /\ status_writes' = [ status_writes EXCEPT ![r] = @ + 1 ]
  /\ pc' = [ pc EXCEPT ![r] = "returned" ]
  /\ UNCHANGED << passport, workflows, task_runs, payer_name, task_run_ids, futures,
                  results, exceptions >>
  /\ UNCHANGED << passport_rows, call, requested_id >>

\* Finalize as it would be if the strings of the run were added to the exception
\* list the workflow was loaded with
Finalize_append(r) ==
  /\ pc[r] = "collect"
  /\ DOMAIN results[r] = AgentNames
  /\ LET evidence == build_evidence_bundle(passport, results[r])
     IN /\ workflow' = [ workflow EXCEPT ![r].exceptions = @ \o exceptions[r],
                                         ![r].status =
                                           final_status(workflow[r].exceptions \o exceptions[r]),
                                         ![r].updated_at = "utcnow at run",
                                         ![r]._evidence_bundle = Some(evidence) ]
        /\ audit_events' =
             add_audit_event(audit_events, workflow[r].workflow_id, workflow[r].clinician_id,
                             "agent:Audit Trail Agent", "evidence_bundle.created", "system",
                             [ keys |-> DOMAIN evidence ])
  /\ status_writes' = [ status_writes EXCEPT ![r] = @ + 1 ]
  /\ pc' = [ pc EXCEPT ![r] = "returned" ]
  /\ UNCHANGED << passport, workflows, task_runs, payer_name, task_run_ids, futures,
                  results, exceptions >>
  /\ UNCHANGED << passport_rows, call, requested_id >>

\* run_workflow, lines 173-209: every future was yielded; the evidence bundle is
\* built, exceptions and status are set, evidence_bundle.created is logged and
\* the workflow is returned
Finalize(r) ==
  /\ pc[r] = "collect"
  /\ DOMAIN results[r] = AgentNames
  /\ LET evidence == build_evidence_bundle(passport, results[r])
     IN /\ workflow' = [ workflow EXCEPT ![r].exceptions = exceptions[r],
                                         ![r].status = final_status(exceptions[r]),
                                         ![r].updated_at = "utcnow at run",
                                         ![r]._evidence_bundle = Some(evidence) ]
        /\ audit_events' =
             add_audit_event(audit_events, workflow[r].workflow_id, workflow[r].clinician_id,
                             "agent:Audit Trail Agent", "evidence_bundle.created", "system",
                             [ keys |-> DOMAIN evidence ])
  /\ status_writes' = [ status_writes EXCEPT ![r] = @ + 1 ]
  /\ pc' = [ pc EXCEPT ![r] = "returned" ]
  /\ UNCHANGED << passport, workflows, task_runs, payer_name, task_run_ids, futures,
                  results, exceptions >>
  /\ UNCHANGED << passport_rows, call, requested_id >>

\* main.py run_workflow_now, lines 267-271: the returned workflow is dumped, the
\* bundle is put into its evidence_bundle field and the row is updated
Persist(r) ==
  /\ pc[r] = "returned"
  /\ LET wf_dump == [ model_dump(workflow[r]) EXCEPT !.evidence_bundle =
                        IF workflow[r]._evidence_bundle # Nothing
                          THEN workflow[r]._evidence_bundle ELSE @ ]
     IN workflows' = update_workflow(workflows, workflow[r].workflow_id, wf_dump)
  /\ pc' = [ pc EXCEPT ![r] = "done" ]
  /\ UNCHANGED << passport, task_runs, audit_events, payer_name, workflow, task_run_ids,
                  futures, results, exceptions, status_writes >>
  /\ UNCHANGED << passport_rows, call, requested_id >>

(***************************************************************************)
(* The other requests of the API.                                          *)
(***************************************************************************)
\* main.py create_or_update_passport: the passport is stored, over the row of
\* the clinician when there is one
CreateOrUpdatePassport(p) ==
  /\ passport_rows' =
       IF CLINICIAN_ID \in DOMAIN passport_rows
         THEN update_passport(passport_rows, CLINICIAN_ID, p)
         ELSE create_passport(passport_rows, CLINICIAN_ID, p)
  /\ passport_rows' # passport_rows
  /\ UNCHANGED << passport, db_vars, pc, payer_name, workflow, task_run_ids, futures,
                  results, exceptions, status_writes, call, requested_id >>

\* main.py authorize_access, lines 170-203: with the passport of the clinician
\* stored, a workflow in progress is created under a fresh id; without it the
\* request ends with 404 and stores nothing
AuthorizeAccess ==
  /\ CLINICIAN_ID \in DOMAIN passport_rows
  /\ Cardinality(DOMAIN workflows) < MaxWorkflows
  /\ \E destination_type \in DestinationTypes :
       workflows' =
         create_workflow(workflows,
                         [ NewWorkflow EXCEPT
                             !.workflow_id = WorkflowIdOf(Cardinality(DOMAIN workflows) + 1),
                             !.destination_type = destination_type,
                             !.steps = generate_workflow_steps(destination_type) ])
  /\ UNCHANGED << passport, passport_rows, task_runs, audit_events, pc, payer_name,
                  workflow, task_run_ids, futures, results, exceptions, status_writes,
                  call, requested_id >>

\* RunNotFound as it would be if the refused request were written to the audit log
RunNotFound_logged(r, wid) ==
  /\ pc[r] = "idle"
  /\ requested_id' = [ requested_id EXCEPT ![r] = wid ]
  /\ \/ /\ wid \notin DOMAIN workflows
        /\ pc' = [ pc EXCEPT ![r] = "404 Workflow not found" ]
     \/ /\ wid \in DOMAIN workflows
        /\ workflows[wid].workflow_data.clinician_id \notin DOMAIN passport_rows
        /\ pc' = [ pc EXCEPT ![r] = "404 Passport not found" ]
  /\ audit_events' =
       add_audit_event(audit_events, wid, None, "system", "workflow.run_refused",
                       "system", EmptyDict)
  /\ UNCHANGED << passport, passport_rows, workflows, task_runs, payer_name,
                  workflow, task_run_ids, futures, results, exceptions, status_writes,
                  call >>

\* main.py run_workflow_now, lines 253-259: the workflow row or the passport row
\* is missing and the request ends with 404
RunNotFound(r, wid) ==
  /\ pc[r] = "idle"
  /\ requested_id' = [ requested_id EXCEPT ![r] = wid ]
  /\ \/ /\ wid \notin DOMAIN workflows
        /\ pc' = [ pc EXCEPT ![r] = "404 Workflow not found" ]
     \/ /\ wid \in DOMAIN workflows
        /\ workflows[wid].workflow_data.clinician_id \notin DOMAIN passport_rows
        /\ pc' = [ pc EXCEPT ![r] = "404 Passport not found" ]
  /\ UNCHANGED << passport, passport_rows, db_vars, payer_name,
                  workflow, task_run_ids, futures, results, exceptions, status_writes,
                  call >>

(***************************************************************************)
(* Spec: one run, with every payer name and with every task function able  *)
(* to raise.                                                               *)
(***************************************************************************)
FirstRun == CHOOSE r \in RunIds : \A q \in RunIds : r <= q

Next ==
  \/ StartRun(FirstRun, PayerNames)
  \/ CreateTaskRun(FirstRun)
  \/ Dispatch(FirstRun)
  \/ \E a \in AgentNames : TaskFinish(FirstRun, a, AllTaskFns)
  \/ \E a \in AgentNames : Collect(FirstRun, a)
  \/ Finalize(FirstRun)
  \/ Persist(FirstRun)

Spec == Init /\ [][Next]_vars

(***************************************************************************)
(* RerunSpec: MaxRuns runs of the same workflow, one after the other, as   *)
(* the synchronous endpoint performs them for one client; no payer name is *)
(* given and the task functions end as their code says.                    *)
(***************************************************************************)
\* every run before r has gone through the endpoint
PreviousDone(r) == \A q \in RunIds : q < r => pc[q] = "done"

NextRerun ==
  \E r \in RunIds :
    \/ PreviousDone(r) /\ StartRun(r, { None })
    \/ CreateTaskRun(r)
    \/ Dispatch(r)
    \/ \E a \in AgentNames : TaskFinish(r, a, {})
    \/ \E a \in AgentNames : Collect(r, a)
    \/ Finalize(r)
    \/ Persist(r)

RerunSpec == Init /\ [][NextRerun]_vars

(***************************************************************************)
(* FairSpec: one run without a payer name in which a step is taken         *)
(* whenever one is possible: the calling thread keeps going, and a task    *)
(* function that was submitted to the pool returns or raises.              *)
(***************************************************************************)
NextFair ==
  \/ StartRun(FirstRun, { None })
  \/ CreateTaskRun(FirstRun)
  \/ Dispatch(FirstRun)
  \/ \E a \in AgentNames : TaskFinish(FirstRun, a, AllTaskFns)
  \/ \E a \in AgentNames : Collect(FirstRun, a)
  \/ Finalize(FirstRun)
  \/ Persist(FirstRun)

Fairness == WF_vars(NextFair)

FairSpec == Init /\ [][NextFair]_vars /\ Fairness

(***************************************************************************)
(* HungSpec: the run of FairSpec in which one of the task functions may     *)
(* never return.  The calling thread and the other task functions keep     *)
(* going: the pool has a worker for each of the five tasks.                *)
(***************************************************************************)
NextHung ==
  \/ NextFair
  \/ \E a \in AgentNames : TaskHang(FirstRun, a)

HungSpec == Init /\ [][NextHung]_vars /\ Fairness

(***************************************************************************)
(* ApiSpec: the requests of the API on the tables as the process finds     *)
(* them: passports are stored and replaced, workflows are created, and     *)
(* runs are requested one after the other for workflow ids that exist or   *)
(* not.  Within a run the tasks end one at a time in the order they were   *)
(* submitted; Spec and RerunSpec explore every order.                      *)
(***************************************************************************)
\* the workflow ids a run is requested for
RequestIds == { WorkflowIdOf(n) : n \in 1 .. MaxWorkflows }

\* the request of run r has been answered
Answered(r) == pc[r] \in { "done", "404 Workflow not found", "404 Passport not found" }

InitApi ==
  /\ passport_rows \in { EmptyDict } \cup { (CLINICIAN_ID :> p) : p \in Passports }
  /\ workflows \in { EmptyDict,
                      (WORKFLOW_ID :> [ status |-> NewWorkflow.status,
                                        workflow_data |-> NewWorkflow ]) }
  /\ passport = [ practice_locations |-> << >> ]
  /\ task_runs = EmptyDict
  /\ audit_events = << >>
  /\ pc = [ r \in RunIds |-> "idle" ]
  /\ requested_id = [ r \in RunIds |-> None ]
  /\ payer_name = [ r \in RunIds |-> None ]
  /\ workflow = [ r \in RunIds |-> LoadWorkflow([ workflow_data |-> NewWorkflow ]) ]
  /\ task_run_ids = [ r \in RunIds |-> EmptyDict ]
  /\ futures = [ r \in RunIds |-> EmptyDict ]
  /\ results = [ r \in RunIds |-> EmptyDict ]
  /\ exceptions = [ r \in RunIds |-> << >> ]
  /\ status_writes = [ r \in RunIds |-> 0 ]
  /\ call = NoCall

\* agent a is the first one the run has no result of
FirstPending(r, a) ==
  /\ DOMAIN results[r] # AgentNames
  /\ a = NextAgent(results[r]).name

NextApi ==
  \/ \E p \in Passports : CreateOrUpdatePassport(p)
  \/ AuthorizeAccess
  \/ \E r \in RunIds : \E wid \in RequestIds :
       (\A q \in RunIds : q < r => Answered(q)) /\ RunNotFound(r, wid)
  \/ \E r \in RunIds : \E wid \in RequestIds :
       (\A q \in RunIds : q < r => Answered(q)) /\ StartRunOn(r, wid, { None })
  \/ \E r \in RunIds : CreateTaskRun(r)
  \/ \E r \in RunIds : Dispatch(r)
  \/ \E r \in RunIds : \E a \in AgentNames : FirstPending(r, a) /\ TaskFinish(r, a, {})
  \/ \E r \in RunIds : \E a \in AgentNames : Collect(r, a)
  \/ \E r \in RunIds : Finalize(r)
  \/ \E r \in RunIds : Persist(r)

ApiSpec == InitApi /\ [][NextApi]_vars

(***************************************************************************)
(* ConcSpec: the runs of the same workflow requested at the same time, as  *)
(* two clients of the endpoint can: each request has its own session and   *)
(* its own calling thread, and the steps of the runs interleave.  A run is *)
(* overtaken by another one after every SwitchEvery-th step it takes; the  *)
(* tasks of a run end one at a time in the order they were submitted.      *)
(***************************************************************************)
\* the number of steps run r has taken
StepsTaken(r) ==
  CASE pc[r] = "idle" -> 0
    [] pc[r] = "create" -> 1 + Cardinality(DOMAIN task_run_ids[r])
    [] pc[r] = "dispatch" -> 6 + Cardinality(DOMAIN futures[r])
    [] pc[r] = "collect" ->
         11 + Cardinality({ a \in DOMAIN futures[r] : futures[r][a].state = "finished" })
            + Cardinality(DOMAIN results[r])
    [] pc[r] = "returned" -> 22
    [] OTHER -> 23

\* the scheduler may let another run go on while run r is here
AtSwitchPoint(r) == pc[r] = "done" \/ StepsTaken(r) % SwitchEvery = 0

NextConc ==
  \E r \in RunIds :
    /\ \A q \in RunIds \ { r } : AtSwitchPoint(q)
    /\ \/ StartRun(r, { None })
       \/ CreateTaskRun(r)
       \/ Dispatch(r)
       \/ \E a \in AgentNames :
            pc[r] = "collect" /\ FirstPending(r, a) /\ TaskFinish(r, a, {})
       \/ \E a \in AgentNames : Collect(r, a)
       \/ Finalize(r)
       \/ Persist(r)

ConcSpec == Init /\ [][NextConc]_vars

(***************************************************************************)
(* AgentSpec: the agent functions called directly on a passport, as the    *)
(* endpoints get_requirements and get_quality_report and the verification  *)
(* task call them, any number of times, on any current date of Days.       *)
(***************************************************************************)
InitAgents ==
  /\ passport \in AgentPassports
  /\ passport_rows = (CLINICIAN_ID :> passport)
  /\ workflows = (WORKFLOW_ID :> [ status |-> NewWorkflow.status,
                                   workflow_data |-> NewWorkflow ])
  /\ task_runs = EmptyDict
  /\ audit_events = << >>
  /\ pc = [ r \in RunIds |-> "idle" ]
  /\ requested_id = [ r \in RunIds |-> None ]
  /\ payer_name = [ r \in RunIds |-> None ]
  /\ workflow = [ r \in RunIds |-> LoadWorkflow(workflows[WORKFLOW_ID]) ]
  /\ task_run_ids = [ r \in RunIds |-> EmptyDict ]
  /\ futures = [ r \in RunIds |-> EmptyDict ]
  /\ results = [ r \in RunIds |-> EmptyDict ]
  /\ exceptions = [ r \in RunIds |-> << >> ]
  /\ status_writes = [ r \in RunIds |-> 0 ]
  /\ call = NoCall

\* everything but call
run_vars == << passport, passport_rows, workflows, task_runs, audit_events, pc,
               payer_name, workflow, task_run_ids, futures, results, exceptions,
               status_writes, requested_id >>

\* main.py get_requirements: the checklist of the passport for a destination type
CallChecklist(destination_type) ==
  /\ call' = [ fn |-> "generate_requirements_checklist",
               destination_type |-> destination_type,
               result |-> generate_requirements_checklist(destination_type, passport) ]
  /\ UNCHANGED run_vars

\* main.py get_quality_report: the quality report of the passport on a date
CallQualityReport(today) ==
  /\ call' = [ fn |-> "generate_quality_report",
               today |-> today,
               result |-> generate_quality_report(passport, today) ]
  /\ UNCHANGED run_vars

\* the verification task called on the passport
CallVerification ==
  /\ \E c \in run_verification_calls(passport) :
       call' = [ fn |-> "run_verification",
                 lookups |-> c.lookups,
                 outcome |-> c.outcome ]
  /\ UNCHANGED run_vars

NextAgents ==
  \/ \E dt \in DestinationTypes : CallChecklist(dt)
  \/ \E today \in Days : CallQualityReport(today)
  \/ CallVerification

AgentSpec == InitAgents /\ [][NextAgents]_vars

(***************************************************************************)
(* ResultSpec: the body of the loop over the futures (orchestrator.py,     *)
(* lines 141-160) applied to one task result: the results the five task    *)
(* functions give, and results with another status tag or none.            *)
(***************************************************************************)
\* status tags that are none of ok, failed, exception, skipped
OtherTags == { "", "OK", "Failed", "error", "done" }

\* the results the task functions of this program give, a raised error included
TaskResults ==
  { future_result(o) :
      o \in UNION { CallTask(fn, p, payer, AllTaskFns) :
                      fn \in AllTaskFns, p \in Passports, payer \in PayerNames } }

\* results no task function of this program gives
OtherResults ==
  { EmptyDict, [ error |-> "task crashed" ], [ reason |-> NO_NPI_REASON ] }
    \cup { [ status |-> t ] : t \in OtherTags }
    \cup { [ status |-> t, error |-> "task crashed" ] : t \in OtherTags }
    \cup { [ status |-> t, reason |-> NO_NPI_REASON ] : t \in OtherTags }

\* lines 141-160 for the result out of the task of agent_name: the status of
\* the task run, the strings added to the exception list and the exceptions
\* payload of the task run
HandleResult(agent_name, out) ==
  /\ call' = [ fn |-> "handle_result",
               agent_name |-> agent_name,
               out |-> out,
               mapped_status |-> mapped_status(Get(out, "status", "ok")),
               added |-> exception_strings(agent_name, out),
               exceptions |->
                 IF mapped_status(Get(out, "status", "ok")) \in { "failed", "exception" }
                   THEN Some(out) ELSE Nothing ]
  /\ UNCHANGED run_vars

NextResult ==
  \E a \in AgentNames : \E out \in TaskResults \cup OtherResults : HandleResult(a, out)

ResultSpec == Init /\ [][NextResult]_vars

(***************************************************************************)
(* Vocabulary of the properties.                                           *)
(***************************************************************************)
\* run_workflow has returned in run r
HasReturned(r) == pc[r] \in { "returned", "done" }

\* the task run ids run r has generated
RunRows(r) == { task_run_ids[r][a] : a \in DOMAIN task_run_ids[r] }

\* the future of agent a in run r was yielded by as_completed and handled
Processed(r, a) == a \in DOMAIN results[r]

\* the future of agent a in run r is finished
Finished(r, a) == a \in DOMAIN futures[r] /\ futures[r][a].state = "finished"

\* the task function of agent a raised in run r
TaskRaised(r, a) == Finished(r, a) /\ futures[r][a].outcome.raised

\* the status tag the task function of agent a reported in run r
ReportedTag(r, a) == Get(futures[r][a].outcome.out, "status", "ok")

\* the texts that can follow "<agent name>: " in an exception string
ExceptionTexts ==
  TaskErrors \cup LookupErrors \cup { NO_NPI_REASON, "failed", "exception" }

\* the exception strings agent a can contribute
ExceptionStringsOf == [ a \in AgentNames |-> { a \o ": " \o t : t \in ExceptionTexts } ]

\* the positions of the exception list l that hold a string of agent a
StringsOf(l, a) == { i \in DOMAIN l : l[i] \in ExceptionStringsOf[a] }

\* the positions of the audit log with the given action
EventsWith(action) == { i \in DOMAIN audit_events : audit_events[i].action = action }

\* no run is between its first and its last step
Quiescent == \A r \in RunIds : pc[r] \in { "idle", "returned", "done" }

NumReturned == Cardinality({ r \in RunIds : HasReturned(r) })

(***************************************************************************)
(* C1.  When run_workflow has returned, the workflow status is "completed" *)
(* if and only if the workflow's exception list is empty, and              *)
(* "pending_review" otherwise; it is no other status.                      *)
(***************************************************************************)
C1_StatusIffNoExceptions ==
  \A r \in RunIds :
    HasReturned(r) =>
      /\ workflow[r].status \in { "completed", "pending_review" }
      /\ workflow[r].status = "completed" <=> workflow[r].exceptions = << >>
      /\ workflow[r].status = "pending_review" <=> workflow[r].exceptions # << >>
      /\ workflow[r].status \notin { "draft", "in_progress", "approved", "rejected" }

\* a run has returned in which one task raised, one reported an exception and
\* the payer task was skipped
C1_Witness ==
  \E r \in RunIds :
    /\ HasReturned(r)
    /\ workflow[r].status = "pending_review"
    /\ \E a \in AgentNames : TaskRaised(r, a)
    /\ ~TaskRaised(r, PAYER) /\ ReportedTag(r, PAYER) = "skipped"

(***************************************************************************)
(* C2.  A run creates exactly 5 task-run rows, one per task of agent_jobs, *)
(* and when it has returned each of them is completed, failed or           *)
(* exception: none is pending or running.                                  *)
(***************************************************************************)
C2_FiveTerminalTaskRuns ==
  /\ \A r \in RunIds :
       HasReturned(r) =>
         /\ Cardinality(RunRows(r)) = 5
         /\ \A a \in AgentNames :
              Cardinality({ t \in RunRows(r) \cap DOMAIN task_runs :
                              task_runs[t].agent_name = a }) = 1
         /\ \A t \in RunRows(r) :
              /\ t \in DOMAIN task_runs
              /\ task_runs[t].status \in TerminalStatus
              /\ task_runs[t].status \notin { "pending", "running" }
  /\ Quiescent =>
       Cardinality(list_task_runs(task_runs, WORKFLOW_ID)) = 5 * NumReturned

\* a run has returned whose payer task was skipped and whose verification
\* task did not complete
C2_Witness ==
  \E r \in RunIds :
    /\ HasReturned(r)
    /\ Cardinality(DOMAIN task_runs) = 5
    /\ ~TaskRaised(r, PAYER) /\ ReportedTag(r, PAYER) = "skipped"
    /\ task_runs[task_run_ids[r][VERIFICATION]].status # "completed"

(***************************************************************************)
(* C3.  A run appends one workflow.started event, one agent.started and    *)
(* one agent.completed event per task, and one evidence_bundle.created     *)
(* event: 12 audit events in all.                                          *)
(***************************************************************************)
\* the events of the given action that name the task run t
TaskEvents(action, t) ==
  { i \in EventsWith(action) : audit_events[i].details.task_run_id = t }

\* C3 (as amended): when no run is under way, the log holds 12 events per run
\* that has returned: 1 workflow.started, 5 agent.started, 5 agent.completed and
\* 1 evidence_bundle.created
C3_TwelveAuditEvents ==
  Quiescent =>
    /\ Cardinality(EventsWith("workflow.started")) = NumReturned
    /\ Cardinality(EventsWith("evidence_bundle.created")) = NumReturned
    /\ \A r \in RunIds :
         HasReturned(r) =>
           \A t \in RunRows(r) :
             /\ Cardinality(TaskEvents("agent.started", t)) = 1
             /\ Cardinality(TaskEvents("agent.completed", t)) = 1
    /\ Cardinality(EventsWith("agent.started")) = 5 * NumReturned
    /\ Cardinality(EventsWith("agent.completed")) = 5 * NumReturned
    /\ Len(audit_events) = 12 * NumReturned
    /\ Cardinality(list_audit_events(audit_events, WORKFLOW_ID)) = 12 * NumReturned

\* the claim as stated: the events of a run number 13
C3_ThirteenAuditEvents ==
  Quiescent => Len(audit_events) = 13 * NumReturned

\* a run has returned and the log holds its 12 events, the last one the bundle's
C3_Witness ==
  /\ \E r \in RunIds : pc[r] = "returned"
  /\ Len(audit_events) = 12
  /\ audit_events[12].action = "evidence_bundle.created"

(***************************************************************************)
(* C4.  Two runs on the same workflow id leave 10 task-run rows: each run  *)
(* adds 5 rows with fresh ids, a later run changes and removes no row of a *)
(* run that has returned, and the audit rows accumulate the same way (12   *)
(* per run, the earlier log kept as a prefix).                             *)
(***************************************************************************)
C4_RowsAccumulate ==
  /\ \A r, q \in RunIds : r # q => RunRows(r) \cap RunRows(q) = {}
  /\ Quiescent =>
       /\ Cardinality(list_task_runs(task_runs, WORKFLOW_ID)) = 5 * NumReturned
       /\ Len(audit_events) = 12 * NumReturned
  /\ (Quiescent /\ NumReturned = 2) =>
       Cardinality(list_task_runs(task_runs, WORKFLOW_ID)) = 10

C4_RowsKept ==
  /\ \A r \in RunIds :
       HasReturned(r) =>
         \A t \in RunRows(r) : t \in DOMAIN task_runs' /\ task_runs'[t] = task_runs[t]
  /\ Len(audit_events') >= Len(audit_events)
  /\ SubSeq(audit_events', 1, Len(audit_events)) = audit_events

\* C4: the counts hold in every state and every step keeps the rows of the runs
\* that have returned and the log written so far
C4_RerunAccumulates == [] C4_RowsAccumulate /\ [][C4_RowsKept]_vars

\* two runs have gone through: 10 rows, the verification row of the first run
\* failed and the one of the second run completed
C4_Witness ==
  /\ pc[1] = "done" /\ pc[2] = "done"
  /\ Cardinality(DOMAIN task_runs) = 10
  /\ task_runs[task_run_ids[1][VERIFICATION]].status = "failed"
  /\ task_runs[task_run_ids[2][VERIFICATION]].status = "completed"

(***************************************************************************)
(* C5.  Every task dispatched to the worker pool has exactly one task-run  *)
(* row of its run, the one with its agent name, and every task contributes *)
(* at most one string to the exception list of its run.                    *)
(***************************************************************************)
C5_OneRowOneString ==
  /\ \A r \in RunIds : \A a \in DOMAIN futures[r] :
       /\ a \in DOMAIN task_run_ids[r]
       /\ Cardinality({ t \in RunRows(r) :
                          t \in DOMAIN task_runs /\ task_runs[t].agent_name = a }) = 1
       /\ task_runs[task_run_ids[r][a]].agent_name = a
  /\ \A a \in AgentNames :
       Cardinality({ t \in DOMAIN task_runs : task_runs[t].agent_name = a })
         = Cardinality({ r \in RunIds : a \in DOMAIN task_run_ids[r] })
  /\ \A r \in RunIds :
       /\ \A a \in AgentNames :
            /\ Cardinality(StringsOf(exceptions[r], a)) <= 1
            /\ Cardinality(StringsOf(workflow[r].exceptions, a)) <= 1
            /\ StringsOf(exceptions[r], a) # {} => Processed(r, a)
       /\ \A i \in DOMAIN exceptions[r] :
            \E a \in AgentNames : exceptions[r][i] \in ExceptionStringsOf[a]

\* all five tasks are dispatched, and two of them have put a string on the list
C5_Witness ==
  \E r \in RunIds :
    /\ DOMAIN futures[r] = AgentNames
    /\ pc[r] = "collect"
    /\ Len(exceptions[r]) = 2
    /\ StringsOf(exceptions[r], VERIFICATION) # {}
    /\ StringsOf(exceptions[r], QUALITY) # {}

(***************************************************************************)
(* C6.  A task function that raises in the pool is recorded as failed, for *)
(* that task only: its row is failed and its error is on the exception     *)
(* list, every other task gets the status its own outcome maps to, and the *)
(* run goes on to return the workflow, pending review with that error.     *)
(***************************************************************************)
\* the task-run status the outcome of agent b's own task function stands for
OwnStatus(r, b) ==
  IF TaskRaised(r, b) THEN "failed"
  ELSE IF ReportedTag(r, b) \in { "failed", "exception" } THEN ReportedTag(r, b)
  ELSE "completed"

C6_Isolated ==
  \A r \in RunIds : \A a \in AgentNames :
    (TaskRaised(r, a) /\ Processed(r, a)) =>
      LET text == a \o ": " \o futures[r][a].outcome.error IN
      /\ task_runs[task_run_ids[r][a]].status = "failed"
      /\ Cardinality({ i \in DOMAIN exceptions[r] : exceptions[r][i] = text }) = 1
      /\ \A b \in AgentNames :
           Processed(r, b) => task_runs[task_run_ids[r][b]].status = OwnStatus(r, b)
      /\ HasReturned(r) =>
           /\ workflow[r].status = "pending_review"
           /\ \E i \in DOMAIN workflow[r].exceptions : workflow[r].exceptions[i] = text
           /\ \A b \in AgentNames :
                task_runs[task_run_ids[r][b]].status \in TerminalStatus

\* C6: a raised error is always recorded as failed for its task only, and a run
\* in which a task function raised goes on to return
C6_RaiseIsolated ==
  /\ [] C6_Isolated
  /\ (\E a \in AgentNames : TaskRaised(FirstRun, a)) ~> HasReturned(FirstRun)

\* a run has returned in which the document task raised and nothing else went
\* wrong: four rows completed, one failed, one exception string
C6_Witness ==
  \E r \in RunIds :
    /\ HasReturned(r)
    /\ TaskRaised(r, DOCUMENTS)
    /\ \A b \in AgentNames \ { DOCUMENTS } :
         ~TaskRaised(r, b) /\ task_runs[task_run_ids[r][b]].status = "completed"
    /\ task_runs[task_run_ids[r][DOCUMENTS]].status = "failed"
    /\ workflow[r].exceptions = << DOCUMENTS \o ": task crashed" >>

(***************************************************************************)
(* C7.  The status tag a task function returns decides its task run: ok    *)
(* and skipped give completed and no exception string, failed gives failed *)
(* and the string "<agent name>: <error field>", exception gives exception *)
(* and the string "<agent name>: <reason field>"; the agent.completed      *)
(* event of the task carries the same status as the row.                   *)
(***************************************************************************)
C7_TagMapping ==
  \A r \in RunIds : \A a \in AgentNames :
    (Processed(r, a) /\ ~TaskRaised(r, a)) =>
      LET out == futures[r][a].outcome.out
          tag == ReportedTag(r, a)
          row == task_runs[task_run_ids[r][a]]
          mine == { exceptions[r][i] : i \in StringsOf(exceptions[r], a) }
      IN /\ tag \in { "ok", "skipped" } => row.status = "completed" /\ mine = {}
         /\ tag = "failed" =>
              /\ row.status = "failed"
              /\ mine = { a \o ": " \o out.error }
              /\ Cardinality(StringsOf(exceptions[r], a)) = 1
         /\ tag = "exception" =>
              /\ row.status = "exception"
              /\ mine = { a \o ": " \o out.reason }
              /\ Cardinality(StringsOf(exceptions[r], a)) = 1
         /\ \E i \in TaskEvents("agent.completed", task_run_ids[r][a]) :
              audit_events[i].details.status = row.status
         /\ \A i \in TaskEvents("agent.completed", task_run_ids[r][a]) :
              audit_events[i].details.status = row.status

\* the verification task returned failed and the payer task returned skipped,
\* and both were handled
C7_Witness ==
  \E r \in RunIds :
    /\ Processed(r, VERIFICATION) /\ ~TaskRaised(r, VERIFICATION)
    /\ ReportedTag(r, VERIFICATION) = "failed"
    /\ Processed(r, PAYER) /\ ~TaskRaised(r, PAYER)
    /\ ReportedTag(r, PAYER) = "skipped"
    /\ Processed(r, GUARDRAILS) /\ ~TaskRaised(r, GUARDRAILS)
    /\ ReportedTag(r, GUARDRAILS) = "ok"

(***************************************************************************)
(* C8.  A task-run row is created as pending before its task is            *)
(* dispatched, then goes pending -> running -> completed, failed or        *)
(* exception and makes no other change of status: it is updated exactly    *)
(* twice in a run, never goes back and is never updated after that.        *)
(***************************************************************************)
\* the number of updates a row has had tells its status, and a dispatched task
\* has its row
C8_Counted ==
  /\ \A t \in DOMAIN task_runs :
       LET row == task_runs[t] IN
       /\ row.updates = 0 <=> row.status = "pending"
       /\ row.updates = 1 <=> row.status = "running"
       /\ row.updates = 2 <=> row.status \in TerminalStatus
       /\ row.updates <= 2
  /\ \A r \in RunIds :
       /\ \A a \in DOMAIN futures[r] :
            /\ a \in DOMAIN task_run_ids[r]
            /\ task_run_ids[r][a] \in DOMAIN task_runs
            /\ task_runs[task_run_ids[r][a]].status # "pending"
       /\ HasReturned(r) => \A t \in RunRows(r) : task_runs[t].updates = 2

\* what one step may do to the rows
C8_Step ==
  /\ \A t \in DOMAIN task_runs :
       /\ t \in DOMAIN task_runs'
       /\ \/ task_runs'[t] = task_runs[t]
          \/ /\ task_runs[t].status = "pending"
             /\ task_runs'[t].status = "running"
             /\ task_runs'[t].updates = 1
          \/ /\ task_runs[t].status = "running"
             /\ task_runs'[t].status \in TerminalStatus
             /\ task_runs'[t].updates = 2
  /\ \A t \in DOMAIN task_runs' \ DOMAIN task_runs :
       /\ task_runs'[t].status = "pending"
       /\ task_runs'[t].updates = 0
       /\ \A r \in RunIds : task_runs'[t].agent_name \in DOMAIN futures'[r] => t \notin RunRows(r)'

\* C8: rows are counted as the lifecycle says in every state, and every step
\* moves a row only along pending -> running -> terminal
C8_Lifecycle == [] C8_Counted /\ [][C8_Step]_vars

\* a run has returned with rows of all three terminal kinds, each updated twice
C8_Witness ==
  \E r \in RunIds :
    /\ HasReturned(r)
    /\ \A t \in RunRows(r) : task_runs[t].updates = 2
    /\ { task_runs[t].status : t \in RunRows(r) } = TerminalStatus

(***************************************************************************)
(* C9.  Within a run the workflow status is assigned once, and only after  *)
(* all five tasks have resolved: while a task run of the run is pending or *)
(* running, the run has not set the status and has not logged              *)
(* evidence_bundle.created.                                                *)
(***************************************************************************)
\* some task run of run r is missing, pending or running
Unresolved(r) ==
  \/ DOMAIN task_run_ids[r] # AgentNames
  \/ \E t \in RunRows(r) : task_runs[t].status \in { "pending", "running" }

C9_NotBeforeAll ==
  /\ \A r \in RunIds :
       /\ status_writes[r] <= 1
       /\ status_writes[r] = 1 <=> HasReturned(r)
       /\ Unresolved(r) =>
            /\ status_writes[r] = 0
            /\ workflow[r]._evidence_bundle = Nothing
  /\ Cardinality(EventsWith("evidence_bundle.created"))
       = Cardinality({ r \in RunIds : status_writes[r] = 1 })
  /\ Cardinality(EventsWith("evidence_bundle.created"))
       <= Cardinality({ r \in RunIds : ~Unresolved(r) })

\* a step that changes the status or the exceptions of the workflow object of
\* a run, other than loading it, finds every task run of the run resolved
C9_SetAfterAll ==
  \A r \in RunIds :
    (pc[r] # "idle" /\ << workflow'[r].status, workflow'[r].exceptions >>
                         # << workflow[r].status, workflow[r].exceptions >>)
      => ~Unresolved(r)

\* C9: the status is set at most once and never while a task run is unresolved,
\* in every state and by every step
C9_StatusOnceAfterAll == [] C9_NotBeforeAll /\ [][C9_SetAfterAll]_vars

\* four tasks are resolved, one with an exception string, the fifth is still
\* running: the status is not set yet
C9_Witness ==
  \E r \in RunIds :
    /\ pc[r] = "collect"
    /\ Cardinality(DOMAIN results[r]) = 4
    /\ exceptions[r] # << >>
    /\ Unresolved(r)
    /\ workflow[r].status = "in_progress"

(***************************************************************************)
(* C10.  When every task function that was submitted returns or raises, a  *)
(* run that has started ends: run_workflow returns with the workflow       *)
(* completed or pending review.                                            *)
(***************************************************************************)
C10_RunTerminates ==
  (pc[FirstRun] = "create") ~>
     /\ HasReturned(FirstRun)
     /\ workflow[FirstRun].status \in { "completed", "pending_review" }

\* the run has gone through the endpoint and the stored workflow is completed
C10_Witness ==
  /\ pc[FirstRun] = "done"
  /\ workflows[WORKFLOW_ID].status = "completed"
  /\ workflows[WORKFLOW_ID].workflow_data.evidence_bundle # Nothing

(***************************************************************************)
(* C11.  When run_workflow has returned, the workflow it returns carries   *)
(* the evidence bundle built in this run: the passport, the requirements   *)
(* and the quality report, the verification output of this run and its     *)
(* submission outputs.  On a re-run of a workflow that carried a bundle    *)
(* the bundle is the one of the re-run, and it is the one the endpoint     *)
(* stores in the workflow record.                                          *)
(***************************************************************************)
\* the bundle run r has attached to the workflow it returns
BundleOf(r) == workflow[r]._evidence_bundle[1]

\* run r is the last run that went through the endpoint
LastDone(r) == pc[r] = "done" /\ \A q \in RunIds : q > r => pc[q] # "done"

C13_PayerSkippedOrSubmitted ==
  \A r \in RunIds :
    (Finished(r, PAYER) /\ ~TaskRaised(r, PAYER)) =>
      LET out == futures[r][PAYER].outcome.out
          named == payer_name[r] # None /\ payer_name[r] # ""
      IN /\ ~named => out.status = "skipped"
         /\ named => /\ out.status = "ok"
                     /\ out.submission.payer_name = payer_name[r]
         /\ Processed(r, PAYER) =>
              /\ task_runs[task_run_ids[r][PAYER]].status = "completed"
              /\ StringsOf(exceptions[r], PAYER) = {}
         /\ HasReturned(r) =>
              /\ StringsOf(workflow[r].exceptions, PAYER) = {}
              /\ ~named => workflow[r]._evidence_bundle[1].submissions = << >>
              /\ named =>
                   /\ Len(workflow[r]._evidence_bundle[1].submissions) = 1
                   /\ workflow[r]._evidence_bundle[1].submissions[1] = out.submission
                   /\ workflow[r]._evidence_bundle[1].submissions[1].payer_name = payer_name[r]

\* a run with the empty payer name has returned: the payer task was skipped and
\* the run is completed without submissions
C13_Witness ==
  \E r \in RunIds :
    /\ HasReturned(r)
    /\ payer_name[r] = ""
    /\ ~TaskRaised(r, PAYER)
    /\ ReportedTag(r, PAYER) = "skipped"
    /\ workflow[r].status = "completed"
    /\ workflow[r]._evidence_bundle[1].submissions = << >>

(***************************************************************************)
(* C14.  The audit log is append-only: whatever request is handled         *)
(* (passport stored or replaced, workflow created, run, re-run, workflow   *)
(* updated), the events written so far stay as they are, as a prefix of    *)
(* the log, and no task-run row is deleted.                                *)
(***************************************************************************)
C14_Kept ==
  /\ Len(audit_events') >= Len(audit_events)
  /\ \A i \in DOMAIN audit_events :
       i \in DOMAIN audit_events' /\ audit_events'[i] = audit_events[i]
  /\ SubSeq(audit_events', 1, Len(audit_events)) = audit_events
  /\ \A t \in DOMAIN task_runs :
       /\ t \in DOMAIN task_runs'
       /\ task_runs'[t].task_run_id = task_runs[t].task_run_id
       /\ task_runs'[t].workflow_id = task_runs[t].workflow_id
       /\ task_runs'[t].agent_name = task_runs[t].agent_name

\* C14: every step keeps the log written so far as a prefix and keeps every
\* task-run row
C14_AppendOnly == [][C14_Kept]_vars

\* two runs of the same workflow have gone through, the passport was replaced
\* after the second run loaded it and a second workflow was created: the log
\* holds the 24 events of the two runs
C14_Witness ==
  /\ \A r \in RunIds : r <= 2 => pc[r] = "done" /\ requested_id[r] = WORKFLOW_ID
  /\ Len(audit_events) = 24
  /\ Cardinality(DOMAIN task_runs) = 10
  /\ Cardinality(DOMAIN workflows) = 2
  /\ passport_rows[CLINICIAN_ID] # passport

(***************************************************************************)
(* C15.  A run requested for a workflow id that has no row, or whose       *)
(* clinician has no passport row, is answered 404 and does not reach the   *)
(* orchestrator: the request creates no task-run row, writes no audit      *)
(* event and changes no workflow row.                                      *)
(***************************************************************************)
\* the request of run r cannot be served from the tables
Missing(wid) ==
  \/ wid \notin DOMAIN workflows
  \/ workflows[wid].workflow_data.clinician_id \notin DOMAIN passport_rows

\* a run answered 404 has done nothing
C15_NothingDone ==
  \A r \in RunIds :
    pc[r] \in { "404 Workflow not found", "404 Passport not found" } =>
      /\ task_run_ids[r] = EmptyDict
      /\ futures[r] = EmptyDict
      /\ results[r] = EmptyDict
      /\ status_writes[r] = 0
      /\ \A t \in DOMAIN task_runs : \E q \in RunIds \ { r } : t \in RunRows(q)

\* the step that answers the request of run r
C15_Answer ==
  \A r \in RunIds :
    (pc[r] = "idle" /\ pc'[r] # "idle") =>
      LET wid == requested_id'[r] IN
      /\ Missing(wid) =>
           /\ pc'[r] = IF wid \notin DOMAIN workflows
                         THEN "404 Workflow not found" ELSE "404 Passport not found"
           /\ task_runs' = task_runs
           /\ audit_events' = audit_events
           /\ workflows' = workflows
           /\ passport_rows' = passport_rows
           /\ workflow'[r] = workflow[r]
      /\ ~Missing(wid) =>
           /\ pc'[r] = "create"
           /\ workflow'[r].workflow_id = wid

\* C15: a request that cannot be served is answered 404 in a step that writes
\* nothing, and the run does nothing afterwards
C15_NotFound == [] C15_NothingDone /\ [][C15_Answer]_vars

\* after a run of the workflow went through, a run was requested for a workflow
\* id that has no row: it was answered 404 and the tables are as the run left them
C15_Witness ==
  /\ pc[1] = "done"
  /\ pc[2] = "404 Workflow not found"
  /\ requested_id[2] \notin DOMAIN workflows
  /\ Len(audit_events) = 12
  /\ Cardinality(DOMAIN task_runs) = 5

(***************************************************************************)
(* C12.  The verification task returns exception, with the reason that no  *)
(* NPI is present, when no practice location of the passport has an NPI,   *)
(* and makes no lookup; otherwise it makes one lookup, with the first NPI  *)
(* in list order, and returns ok with the registry payload when the lookup *)
(* succeeds and failed with the error text when it raises.  The task       *)
(* itself never raises.                                                    *)
(***************************************************************************)
C12_VerificationOutcome ==
  call.fn = "run_verification" =>
    LET locs == passport.practice_locations
        has == { i \in DOMAIN locs : locs[i] \notin { None, "" } }
        out == call.outcome.out
    IN /\ ~call.outcome.raised
       /\ has = {} =>
            /\ call.lookups = << >>
            /\ out.status = "exception"
            /\ out.reason = "No NPI present on passport enrollment.practice_locations"
       /\ has # {} =>
            LET first == locs[CHOOSE i \in has : \A j \in has : i <= j] IN
            /\ call.lookups = << first >>
            /\ out.status \in { "ok", "failed" }
            /\ out.status = "ok" =>
                 /\ out.nppes.query.npi = first
                 /\ out.nppes.result = "registry payload"
            /\ out.status = "failed" => out.error \in LookupErrors

\* the first location has an empty npi, the second one an npi that is not the
\* sample's: the lookup for it raised and the task returned failed
C12_Witness ==
  /\ call.fn = "run_verification"
  /\ Len(passport.practice_locations) = 2
  /\ passport.practice_locations[1] = ""
  /\ passport.practice_locations[2] = "1987654321"
  /\ call.lookups = << "1987654321" >>
  /\ call.outcome.out.status = "failed"

(***************************************************************************)
(* C16.  The checklist is fixed by the destination type and by which       *)
(* fields the passport has: the DEA and board-certification items are      *)
(* there exactly for hospital and group, the NPI and W9 items exactly for  *)
(* telehealth and group, each with the status the presence of its field    *)
(* gives; every item is complete or pending, never exception; and a        *)
(* second call for the same destination type gives the same items.         *)
(***************************************************************************)
\* the items of a checklist with the given id
ItemsWith(items, id) == { i \in DOMAIN items : items[i].requirement_id = id }

\* the checklist has exactly one item with the id, and its status says whether
\* the field is present
ItemTells(items, id, present) ==
  /\ Cardinality(ItemsWith(items, id)) = 1
  /\ \A i \in ItemsWith(items, id) :
       items[i].status = IF present THEN "complete" ELSE "pending"

C16_Items ==
  call.fn = "generate_requirements_checklist" =>
    LET dt == call.destination_type
        items == call.result
    IN /\ IF dt \in { "hospital", "group" }
            THEN /\ ItemTells(items, "license-dea", passport.dea_number \notin { None, "" })
                 /\ ItemTells(items, "board-certification",
                              passport.board_certifications # << >>)
            ELSE /\ ItemsWith(items, "license-dea") = {}
                 /\ ItemsWith(items, "board-certification") = {}
       /\ IF dt \in { "telehealth", "group" }
            THEN /\ ItemTells(items, "enrollment-npi",
                              \E i \in DOMAIN passport.practice_locations :
                                passport.practice_locations[i] \notin { None, "" })
                 /\ ItemTells(items, "enrollment-w9", passport.w9_on_file)
            ELSE /\ ItemsWith(items, "enrollment-npi") = {}
                 /\ ItemsWith(items, "enrollment-w9") = {}
       /\ ItemTells(items, "identity-legal-name", passport.legal_name # "")
       /\ ItemTells(items, "malpractice-coverage", passport.malpractice # Nothing)
       /\ \A i \in DOMAIN items :
            /\ items[i].status \in { "complete", "pending" }
            /\ items[i].status # "exception"
            /\ items[i].required
       /\ \A i, j \in DOMAIN items :
            items[i].requirement_id = items[j].requirement_id => i = j

\* two calls in a row for the same destination type give the same items
C16_SameItems ==
  ( /\ call.fn = "generate_requirements_checklist"
    /\ call'.fn = "generate_requirements_checklist"
    /\ call'.destination_type = call.destination_type )
  => call'.result = call.result

\* C16: the items and their statuses follow the destination type and the presence
\* of the fields in every state, and a repeated call repeats the items
C16_ChecklistPure == [] C16_Items /\ [][C16_SameItems]_vars

\* the checklist of a group for a passport without DEA number and with the W9
\* on file: all four items are there, the DEA one pending, the W9 one complete
C16_Witness ==
  /\ call.fn = "generate_requirements_checklist"
  /\ call.destination_type = "group"
  /\ passport.dea_number = None
  /\ passport.w9_on_file
  /\ \E i \in ItemsWith(call.result, "license-dea") : call.result[i].status = "pending"
  /\ \E i \in ItemsWith(call.result, "enrollment-w9") : call.result[i].status = "complete"
  /\ Len(call.result) = 12

(***************************************************************************)
(* C17.  The item license-state-active is complete if and only if the      *)
(* passport has a state license whose status is active; with only expired, *)
(* suspended, revoked or inactive state licenses it is pending.            *)
(***************************************************************************)
C17_ActiveLicenseOnly ==
  call.fn = "generate_requirements_checklist" =>
    ItemTells(call.result, "license-state-active",
              \E i \in DOMAIN passport.state_licenses :
                passport.state_licenses[i].status = "active")

(***************************************************************************)
(* C18.  The quality report has exactly one issue of type expired and      *)
(* severity critical per state license whose expiration date is before the *)
(* current date, its field path naming the state of the license, and none  *)
(* for a license that expires on the current date or later.                *)
(***************************************************************************)
\* the issues of a report whose field path names the state license of a state
LicenseIssues(issues, state) ==
  { i \in DOMAIN issues : issues[i].field_name = "licenses.state_licenses." \o state }

C18_ExpiredLicenses ==
  call.fn = "generate_quality_report" =>
    \A state \in { "MA", "NY" } :
      LET expired == { i \in DOMAIN passport.state_licenses :
                         /\ passport.state_licenses[i].state = state
                         /\ passport.state_licenses[i].expiration_date < call.today }
          issues == call.result.issues
      IN /\ Cardinality(LicenseIssues(issues, state)) = Cardinality(expired)
         /\ \A i \in LicenseIssues(issues, state) :
              issues[i].issue_type = "expired" /\ issues[i].severity = "critical"

\* a passport with a license that expired the day before the current date and
\* one that expires on the current date: one issue, for the state of the first
C18_Witness ==
  /\ call.fn = "generate_quality_report"
  /\ call.today = 2
  /\ Len(passport.state_licenses) = 2
  /\ passport.state_licenses[1].state = "NY" /\ passport.state_licenses[1].expiration_date = 1
  /\ passport.state_licenses[2].state = "MA" /\ passport.state_licenses[2].expiration_date = 2
  /\ Cardinality(LicenseIssues(call.result.issues, "NY")) = 1
  /\ LicenseIssues(call.result.issues, "MA") = {}

(***************************************************************************)
(* C19.  The quality report has exactly one issue with field references,   *)
(* of type missing and severity high, when the passport has fewer than 2   *)
(* references, and none when it has 2 or more; the checklist item          *)
(* references-peer is pending in exactly the same cases.                   *)
(***************************************************************************)
\* the issues of a report on the references
ReferenceIssues(issues) ==
  { i \in DOMAIN issues : issues[i].field_name = "references" }

C19_References ==
  LET few == Len(passport.references) \in { 0, 1 } IN
  /\ call.fn = "generate_quality_report" =>
       LET issues == call.result.issues IN
       /\ Cardinality(ReferenceIssues(issues)) = IF few THEN 1 ELSE 0
       /\ Len(passport.references) >= 2 => ReferenceIssues(issues) = {}
       /\ \A i \in ReferenceIssues(issues) :
            issues[i].issue_type = "missing" /\ issues[i].severity = "high"
       /\ \A dt \in DestinationTypes :
            ItemTells(generate_requirements_checklist(dt, passport), "references-peer",
                      ReferenceIssues(issues) = {})
  /\ call.fn = "generate_requirements_checklist" =>
       /\ ItemTells(call.result, "references-peer", ~few)
       /\ \A today \in Days :
            ItemTells(call.result, "references-peer",
                      ReferenceIssues(generate_quality_report(passport, today).issues) = {})

\* the report on a passport with exactly one reference has the issue
C19_Witness ==
  /\ call.fn = "generate_quality_report"
  /\ Len(passport.references) = 1
  /\ Cardinality(ReferenceIssues(call.result.issues)) = 1

(***************************************************************************)
(* C20.  The completeness score of the quality report is k/10, k the       *)
(* number of the ten sections (legal name, education, training, work       *)
(* history, state licenses, board certifications, malpractice, references, *)
(* practice locations, disclosures) that are not empty in the passport; an *)
(* empty section adds nothing to k.                                        *)
(***************************************************************************)
\* the sections of the passport that are not empty
NonEmptySections(p) ==
  { sec \in { "legal_name", "education", "training", "work_history", "state_licenses",
              "board_certifications", "malpractice", "references", "practice_locations",
              "disclosures" } :
      IF sec = "legal_name" THEN p.legal_name # ""
      ELSE IF sec = "malpractice" THEN p.malpractice # Nothing
      ELSE Len(p[sec]) > 0 }

C20_NonEmptySections ==
  call.fn = "generate_quality_report" =>
    call.result.completeness_score =
      [ num |-> Cardinality(NonEmptySections(passport)), den |-> 10 ]

(***************************************************************************)
(* C21.  When one task function never returns, the other four tasks still  *)
(* execute: each of them is handled, its task run reaches a terminal       *)
(* status and its agent.completed event is appended.  The task run of the  *)
(* hung task stays running for good, and the run never sets the workflow   *)
(* status, never logs evidence_bundle.created and never returns.           *)
(***************************************************************************)
\* the task function of agent a never returns in run r
Blocked(r, a) == a \in DOMAIN futures[r] /\ futures[r][a].state = "blocked"

\* the future of agent b was handled: terminal task run, agent.completed logged
C21_Handled(r, b) ==
  /\ Finished(r, b)
  /\ Processed(r, b)
  /\ task_runs[task_run_ids[r][b]].status \in TerminalStatus
  /\ Cardinality(TaskEvents("agent.completed", task_run_ids[r][b])) = 1

C21_Stuck ==
  \A a \in AgentNames :
    Blocked(FirstRun, a) =>
      /\ task_runs[task_run_ids[FirstRun][a]].status = "running"
      /\ ~Processed(FirstRun, a)
      /\ TaskEvents("agent.completed", task_run_ids[FirstRun][a]) = {}
      /\ status_writes[FirstRun] = 0
      /\ workflow[FirstRun].status = "in_progress"
      /\ EventsWith("evidence_bundle.created") = {}
      /\ ~HasReturned(FirstRun)

\* a task function that does not return never does
C21_StaysBlocked ==
  \A a \in AgentNames : Blocked(FirstRun, a) => Blocked(FirstRun, a)'

\* every task of the run but a hung one was handled
C21_OthersHandled ==
  \A a \in AgentNames :
    Blocked(FirstRun, a) => \A b \in AgentNames \ { a } : C21_Handled(FirstRun, b)

C21_OneTaskHangs ==
  /\ []C21_Stuck
  /\ [][C21_StaysBlocked]_vars
  /\ (\E a \in AgentNames : Blocked(FirstRun, a)) ~> []C21_OthersHandled

\* the verification never returned, the other four tasks were handled, one of
\* them after raising, and the run waits in the loop over the futures
C21_Witness ==
  /\ Blocked(FirstRun, VERIFICATION)
  /\ \A b \in AgentNames \ { VERIFICATION } : C21_Handled(FirstRun, b)
  /\ TaskRaised(FirstRun, GUARDRAILS)
  /\ task_runs[task_run_ids[FirstRun][VERIFICATION]].status = "running"
  /\ pc[FirstRun] = "collect"

(***************************************************************************)
(* C22.  The exception list of the workflow a run returns has one entry    *)
(* for each task whose task run ended failed or exception and none for a   *)
(* task whose run ended completed, and the entries are in the order in     *)
(* which the completions were handled, which is the order of the           *)
(* agent.completed events of those tasks, not the order of the task list.  *)
(***************************************************************************)
\* the task run of agent a in run r ended failed or exception
EndedBadly(r, a) ==
  task_runs[task_run_ids[r][a]].status \in { "failed", "exception" }

\* the position of the agent.completed event of agent a in run r
CompletedAt(r, a) ==
  CHOOSE i \in DOMAIN audit_events :
    i \in TaskEvents("agent.completed", task_run_ids[r][a])

\* the position of the string of agent a in the exception list l
StringAt(l, a) == CHOOSE i \in DOMAIN l : i \in StringsOf(l, a)

C22_ExceptionOrder ==
  HasReturned(FirstRun) =>
    LET l == workflow[FirstRun].exceptions
        bad == { a \in AgentNames : EndedBadly(FirstRun, a) }
    IN /\ Len(l) = Cardinality(bad)
       /\ \A a \in AgentNames :
            Cardinality(StringsOf(l, a)) = IF a \in bad THEN 1 ELSE 0
       /\ \A a, b \in bad :
            StringAt(l, a) < StringAt(l, b)
              <=> CompletedAt(FirstRun, a) < CompletedAt(FirstRun, b)

\* the guardrail task raised and was handled before the verification, which
\* has no NPI to look up: the list holds the two strings against the task-list
\* order, and the other three tasks ended completed
C22_Witness ==
  /\ HasReturned(FirstRun)
  /\ Len(workflow[FirstRun].exceptions) = 2
  /\ workflow[FirstRun].exceptions[1] = GUARDRAILS \o ": task crashed"
  /\ workflow[FirstRun].exceptions[2] = VERIFICATION \o ": " \o NO_NPI_REASON
  /\ JobOf(VERIFICATION) < JobOf(GUARDRAILS)
  /\ CompletedAt(FirstRun, GUARDRAILS) < CompletedAt(FirstRun, VERIFICATION)

(***************************************************************************)
(* C23.  The outcome of a run does not depend on the order in which the    *)
(* five tasks complete.  Whatever the order, the returned workflow has the *)
(* status, each task run the terminal status and the exception list the    *)
(* strings that handling the same task outcomes in task-list order gives;  *)
(* only the order of the strings may differ.                               *)
(***************************************************************************)
\* what the task of the i-th job ended with in run r, as the loop sees it
OutcomeOf(r, i) == future_result(futures[r][agent_jobs[i].name].outcome)

\* the exception list of run r had the futures been handled in task-list order
InListOrder(r) ==
  ConcatAll([ i \in DOMAIN agent_jobs |->
                exception_strings(agent_jobs[i].name, OutcomeOf(r, i)) ])

\* the elements of a list
Range(l) == { l[i] : i \in DOMAIN l }

C23_OrderIndependent ==
  HasReturned(FirstRun) =>
    /\ workflow[FirstRun].status = final_status(InListOrder(FirstRun))
    /\ Range(workflow[FirstRun].exceptions) = Range(InListOrder(FirstRun))
    /\ Len(workflow[FirstRun].exceptions) = Len(InListOrder(FirstRun))
    /\ \A i \in DOMAIN agent_jobs :
         task_runs[task_run_ids[FirstRun][agent_jobs[i].name]].status
           = mapped_status(Get(OutcomeOf(FirstRun, i), "status", "ok"))

\* the futures were handled in the reverse of the task-list order, the first
\* and the last of them after the task raised, and the list differs from the
\* one of the task-list order in the order of its strings only
C23_Witness ==
  /\ HasReturned(FirstRun)
  /\ \A i, j \in DOMAIN agent_jobs :
       i < j => CompletedAt(FirstRun, agent_jobs[j].name)
                  < CompletedAt(FirstRun, agent_jobs[i].name)
  /\ TaskRaised(FirstRun, GUARDRAILS)
  /\ TaskRaised(FirstRun, QUALITY)
  /\ workflow[FirstRun].exceptions # InListOrder(FirstRun)
  /\ workflow[FirstRun].status = "pending_review"

(***************************************************************************)
(* C24.  When runs of the same workflow are interleaved, their audit       *)
(* events may interleave in the log, but each run creates its own five     *)
(* task runs, writes only to task runs it created and drives each of them  *)
(* to a terminal status: when the runs have finished there are five        *)
(* terminal task runs for each of them, ten for two runs, and no task run  *)
(* is left pending or running.                                             *)
(***************************************************************************)
\* the step is one of run r
Moved(r) ==
  << pc[r], task_run_ids[r], futures[r], results[r] >>
    # << pc'[r], task_run_ids'[r], futures'[r], results'[r] >>

\* the task runs inserted or changed by the step
Written ==
  { t \in DOMAIN task_runs' : t \notin DOMAIN task_runs \/ task_runs'[t] # task_runs[t] }

C24_OwnRows ==
  /\ \A r \in RunIds :
       pc[r] \notin { "idle", "create" } =>
         /\ Cardinality(RunRows(r)) = 5
         /\ RunRows(r) \subseteq DOMAIN task_runs
         /\ \A q \in RunIds \ { r } : RunRows(r) \cap RunRows(q) = {}
  /\ \A r \in RunIds :
       HasReturned(r) => \A t \in RunRows(r) : /\ task_runs[t].status \in TerminalStatus
                                                /\ task_runs[t].updates = 2
  /\ (\A r \in RunIds : HasReturned(r)) =>
       /\ Cardinality(DOMAIN task_runs) = 5 * Cardinality(RunIds)
       /\ \A t \in DOMAIN task_runs : task_runs[t].status \in TerminalStatus

C24_WritesOwnRows ==
  \A t \in Written :
    \E r \in RunIds : /\ Moved(r)
                      /\ t \in { task_run_ids'[r][a] : a \in DOMAIN task_run_ids'[r] }
                      /\ t \notin UNION { RunRows(q) : q \in RunIds \ { r } }

C24_InterleavedRuns == []C24_OwnRows /\ [][C24_WritesOwnRows]_vars

\* both runs have gone through the endpoint; in the log the second run started
\* while the first was handling its futures, an agent.started event of the
\* second run stands between two agent.completed events of the first, and the
\* first run was the last to end
C24_Witness ==
  /\ pc[1] = "done" /\ pc[2] = "done"
  /\ Cardinality(DOMAIN task_runs) = 10
  /\ \E i, j, k \in DOMAIN audit_events :
       /\ i < j /\ j < k
       /\ audit_events[i].action = "agent.completed"
       /\ audit_events[i].details.task_run_id \in RunRows(1)
       /\ audit_events[j].action = "agent.started"
       /\ audit_events[j].details.task_run_id \in RunRows(2)
       /\ audit_events[k].action = "agent.completed"
       /\ audit_events[k].details.task_run_id \in RunRows(1)
  /\ audit_events[Len(audit_events)].action = "evidence_bundle.created"
  /\ audit_events[Len(audit_events) - 1].action = "agent.completed"
  /\ audit_events[Len(audit_events) - 1].details.task_run_id \in RunRows(1)

(***************************************************************************)
(* C25.  The audit events of a run are ordered: workflow.started comes     *)
(* first, then the agent.started events of the five tasks in task-list     *)
(* order, all of them before any agent.completed event, and                *)
(* evidence_bundle.created comes last.  No task function executes before   *)
(* its task run is running and its agent.started event is in the log.      *)
(***************************************************************************)
\* the action of the i-th audit event of a run
C25_ActionAt(i) ==
  IF i = 1 THEN "workflow.started"
  ELSE IF i <= 1 + Len(agent_jobs) THEN "agent.started"
  ELSE IF i <= 1 + 2 * Len(agent_jobs) THEN "agent.completed"
  ELSE "evidence_bundle.created"

C25_EventOrder ==
  /\ Len(audit_events) <= 2 + 2 * Len(agent_jobs)
  /\ HasReturned(FirstRun) => Len(audit_events) = 2 + 2 * Len(agent_jobs)
  /\ \A i \in DOMAIN audit_events :
       /\ audit_events[i].action = C25_ActionAt(i)
       /\ audit_events[i].action = "agent.started" =>
            /\ audit_events[i].actor = "agent:" \o agent_jobs[i - 1].name
            /\ audit_events[i].details.task_run_id
                 = task_run_ids[FirstRun][agent_jobs[i - 1].name]
  /\ \A a \in DOMAIN futures[FirstRun] :
       /\ task_runs[task_run_ids[FirstRun][a]].status # "pending"
       /\ task_runs[task_run_ids[FirstRun][a]].started_at # None
       /\ Cardinality(TaskEvents("agent.started", task_run_ids[FirstRun][a])) = 1
  /\ \A a \in DOMAIN task_run_ids[FirstRun] :
       task_runs[task_run_ids[FirstRun][a]].status = "pending"
         => a \notin DOMAIN futures[FirstRun]

\* the run has returned with its twelve events; the first future handled was
\* the one of the last task of the list, whose agent.started event is the last
\* of the five
C25_Witness ==
  /\ HasReturned(FirstRun)
  /\ Len(audit_events) = 12
  /\ audit_events[6].actor = "agent:" \o GUARDRAILS
  /\ audit_events[7].actor = "agent:" \o GUARDRAILS
  /\ audit_events[7].action = "agent.completed"
  /\ audit_events[11].actor = "agent:" \o QUALITY
  /\ audit_events[12].actor = "agent:Audit Trail Agent"

(***************************************************************************)
(* C26.  Within a run the task functions, which execute on the worker      *)
(* threads, write nothing to the tables: every insert and update of a task *)
(* run and every append to the audit log is a step of the thread that      *)
(* called run_workflow, which takes its steps one after the other.         *)
(***************************************************************************)
\* the step moves the calling thread of run r
CallerStep(r) ==
  << pc[r], DOMAIN task_run_ids[r], DOMAIN futures[r], DOMAIN results[r] >>
    # << pc'[r], DOMAIN task_run_ids'[r], DOMAIN futures'[r], DOMAIN results'[r] >>

\* the step is one of a worker thread of run r: a submitted future changes
WorkerStep(r) ==
  \E a \in DOMAIN futures[r] : futures'[r][a] # futures[r][a]

C26_Step ==
  /\ WorkerStep(FirstRun) =>
       /\ UNCHANGED << db_vars, passport_rows >>
       /\ ~CallerStep(FirstRun)
  /\ (db_vars' # db_vars) =>
       /\ CallerStep(FirstRun)
       /\ ~WorkerStep(FirstRun)

C26_WritesByCaller == [][C26_Step]_vars

\* the calling thread is still submitting tasks, with three task runs running
\* and two pending, while the first task has already ended on its worker: its
\* task run is still running and has no output
C26_Witness ==
  /\ pc[FirstRun] = "dispatch"
  /\ Cardinality(DOMAIN futures[FirstRun]) = 3
  /\ Finished(FirstRun, QUALITY)
  /\ task_runs[task_run_ids[FirstRun][QUALITY]].status = "running"
  /\ task_runs[task_run_ids[FirstRun][QUALITY]].output = Nothing
  /\ TaskEvents("agent.completed", task_run_ids[FirstRun][QUALITY]) = {}

(***************************************************************************)
(* C27.  A run changes the status, the exceptions, updated_at and the      *)
(* evidence bundle of the workflow and nothing else: the steps (ids, agent *)
(* names, statuses and timestamps given at creation), the ids, the         *)
(* destination and created_at of the workflow and the stored passport are  *)
(* what they were before the run, so the progress computed from the        *)
(* completed steps is the same before and after any run.                   *)
(***************************************************************************)
\* the fields of a workflow a run may change
RunFields == { "status", "exceptions", "updated_at", "evidence_bundle", "_evidence_bundle" }

\* the workflow without the fields a run may change
Frame(w) == [ k \in DOMAIN w \ RunFields |-> w[k] ]

C27_Step ==
  \A r \in RunIds :
    Moved(r) /\ pc'[r] \in { "create", "dispatch", "collect", "returned", "done" } =>
      /\ passport_rows' = passport_rows
      /\ passport' = IF pc[r] = "idle" THEN passport_rows[workflow'[r].clinician_id]
                                      ELSE passport
      /\ DOMAIN workflows' = DOMAIN workflows
      /\ \A wid \in DOMAIN workflows :
           /\ Frame(workflows'[wid].workflow_data) = Frame(workflows[wid].workflow_data)
           /\ progress(workflows'[wid].workflow_data) = progress(workflows[wid].workflow_data)
      /\ Frame(workflow'[r]) = Frame(workflows[requested_id'[r]].workflow_data)
      /\ progress(workflow'[r]) = progress(workflows[requested_id'[r]].workflow_data)
      /\ { "steps", "workflow_id", "clinician_id", "destination_id", "destination_type",
           "created_at" } \subseteq DOMAIN Frame(workflow'[r])

C27_RunFrame == [][C27_Step]_vars

\* a run has gone through the endpoint on a telehealth workflow: the record is
\* completed and carries the bundle, and of its seven steps the first is still
\* the only completed one and the second is still in progress
C27_Witness ==
  \E r \in RunIds :
    /\ pc[r] = "done"
    /\ requested_id[r] = WorkflowIdOf(2)
    /\ LET w == workflows[requested_id[r]].workflow_data
       IN /\ w.destination_type = "telehealth"
          /\ w.status = "completed"
          /\ w.updated_at = "utcnow at run"
          /\ w.evidence_bundle # Nothing
          /\ Len(w.steps) = 7
          /\ progress(w) = [ num |-> 1, den |-> 7 ]
          /\ w.steps[2].status = "in_progress"

(***************************************************************************)
(* C28.  A run replaces the exception list of the workflow: the workflow   *)
(* it returns holds the strings of the tasks of this run and no string the *)
(* workflow was loaded with, and its status follows from this run alone.   *)
(* A workflow that was pending review with exceptions is completed with an *)
(* empty list after a later run in which no task fails.                    *)
(***************************************************************************)
\* the strings the tasks of run r gave, as a set
C28_StringsOfRun(r) ==
  UNION { Range(exception_strings(a, results[r][a])) : a \in DOMAIN results[r] }

C28_Replaced ==
  \A r \in RunIds :
    /\ HasReturned(r) =>
         /\ Range(workflow[r].exceptions) = C28_StringsOfRun(r)
         /\ Len(workflow[r].exceptions)
              = Cardinality({ a \in AgentNames : EndedBadly(r, a) })
         /\ (workflow[r].status = "completed")
              <=> \A a \in AgentNames : ~EndedBadly(r, a)
    /\ LastDone(r) =>
         /\ workflows[WORKFLOW_ID].workflow_data.exceptions = workflow[r].exceptions
         /\ workflows[WORKFLOW_ID].status = workflow[r].status

\* the first run ended pending review with the string of the failed lookup; the
\* second run, which loaded that workflow, had no failing task and the record
\* is completed with an empty list
C28_Witness ==
  /\ pc[1] = "done" /\ pc[2] = "done"
  /\ workflow[1].status = "pending_review"
  /\ workflow[1].exceptions = << VERIFICATION \o ": 503 Server Error" >>
  /\ workflow[2].status = "completed"
  /\ workflow[2].exceptions = << >>
  /\ workflows[WORKFLOW_ID].status = "completed"
  /\ workflows[WORKFLOW_ID].workflow_data.exceptions = << >>

(***************************************************************************)
(* C29.  A task result without a status tag, or with a tag that is none of *)
(* ok, failed, exception and skipped, is handled as a success: the task    *)
(* run ends completed, no string is added to the exception list and the    *)
(* exceptions payload of the task run stays empty.  The result of the      *)
(* quality check has no status tag and is handled this way.                *)
(***************************************************************************)
\* the result has no status tag or one that the loop does not know
C29_NoKnownTag(out) ==
  \/ "status" \notin DOMAIN out
  \/ out.status \notin { "ok", "failed", "exception", "skipped" }

C29_UntaggedIsSuccess ==
  call.fn = "handle_result" =>
    /\ C29_NoKnownTag(call.out) =>
         /\ call.mapped_status = "completed"
         /\ call.added = << >>
         /\ call.exceptions = Nothing
    /\ (\E p \in Passports : Returned(call.out) \in run_quality(p)) =>
         /\ "status" \notin DOMAIN call.out
         /\ call.mapped_status = "completed"
         /\ call.added = << >>

\* a result tagged "error" that carries an error text was handled: the task run
\* is completed and nothing was added
C29_Witness ==
  /\ call.fn = "handle_result"
  /\ call.out = [ status |-> "error", error |-> "task crashed" ]
  /\ call.mapped_status = "completed"
  /\ call.added = << >>

(***************************************************************************)
(* C30.  A run on a passport none of whose practice locations has an NPI   *)
(* never ends completed.  When the other four tasks return normally the    *)
(* workflow ends pending review with one exception entry, the one of the   *)
(* Primary Source Verification Agent, and the task run of the verification *)
(* ends exception while the other four end completed.                      *)
(***************************************************************************)
\* no practice location of the passport has an NPI
NoNpi(p) == \A i \in DOMAIN p.practice_locations : ~Truthy(p.practice_locations[i])

C30_NoNpiPendingReview ==
  (HasReturned(FirstRun) /\ NoNpi(passport)) =>
    /\ workflow[FirstRun].status # "completed"
    /\ pc[FirstRun] = "done" => workflows[WORKFLOW_ID].status # "completed"
    /\ (\A a \in AgentNames : ~TaskRaised(FirstRun, a)) =>
         /\ workflow[FirstRun].status = "pending_review"
         /\ workflow[FirstRun].exceptions = << VERIFICATION \o ": " \o NO_NPI_REASON >>
         /\ \A a \in AgentNames :
              task_runs[task_run_ids[FirstRun][a]].status
                = IF a = VERIFICATION THEN "exception" ELSE "completed"
         /\ \A a \in AgentNames :
              task_runs[task_run_ids[FirstRun][a]].exceptions # Nothing
                <=> a = VERIFICATION
         /\ pc[FirstRun] = "done" => workflows[WORKFLOW_ID].status = "pending_review"

\* the run on the passport without an NPI, with a payer name, has gone through
\* the endpoint: no task raised, the payer submission was made, the
\* verification was the last future handled and the record is pending review
C30_Witness ==
  /\ pc[FirstRun] = "done"
  /\ NoNpi(passport)
  /\ payer_name[FirstRun] = "Aetna"
  /\ \A a \in AgentNames : ~TaskRaised(FirstRun, a)
  /\ audit_events[Len(audit_events) - 1].actor = "agent:" \o VERIFICATION
  /\ task_runs[task_run_ids[FirstRun][VERIFICATION]].status = "exception"
  /\ workflows[WORKFLOW_ID].status = "pending_review"
  /\ workflows[WORKFLOW_ID].workflow_data.exceptions
       = << VERIFICATION \o ": " \o NO_NPI_REASON >>

====
